---- MODULE Spec2Model ----
(***************************************************************************)
(* Equipment tracker: the SQLite-backed record store (backend/db.js), the   *)
(* Express route handlers (backend/routes/equipmentRoutes.js) and, of the  *)
(* browser client, the form (EquipmentForm) and the page (Index): its     *)
(* filtered and sorted list, its edit mode and its mutations and refetch.  *)
(* The handlers are modelled whole, one request at a time, and also split  *)
(* at their store calls with several requests in flight.                   *)
(*                                                                         *)
(* Text is modelled as a tuple of one-character strings, so that trimming, *)
(* the date pattern, isNaN and parseInt are computed on the characters.    *)
(* A JSON value of a request body is a record [t, v]: t is its JavaScript  *)
(* type tag and v its text (empty for undefined and null).                 *)
(***************************************************************************)
EXTENDS Integers, Sequences, FiniteSets

\* ------------------------------------------------------------------ bounds
\* Largest id the model lets the store assign (creates are refused beyond it).
MaxSeq == 3
\* Largest value of the store's clock (CURRENT_TIMESTAMP, in whole seconds).
MaxTime == 1
\* Largest id the store assigns in the specification SpecFields.
MaxSeqFields == 1
\* Largest id the store assigns in the specification SpecFaults.
MaxSeqFaults == 2
\* Largest id the store assigns in the specification SpecForm.
MaxSeqForm == 1
\* The records the cached list of the specification SpecView may hold.
MaxCache == 3
\* Largest id the store assigns in the specification SpecPage.
MaxSeqPage == 2
\* The handlers that run side by side, and the largest id the store assigns, in
\* the specification SpecConcurrent.
MaxHandlers == 2
MaxSeqConcurrent == 2

\* ------------------------------------------------------------ text values
Machine == <<"M", "a", "c", "h", "i", "n", "e">>
Vessel == <<"V", "e", "s", "s", "e", "l">>
Tank == <<"T", "a", "n", "k">>
Mixer == <<"M", "i", "x", "e", "r">>
Pump == <<"P", "u", "m", "p">>
Active == <<"A", "c", "t", "i", "v", "e">>
Inactive == <<"I", "n", "a", "c", "t", "i", "v", "e">>
UnderMaintenance ==
    <<"U", "n", "d", "e", "r", " ", "M", "a", "i", "n", "t", "e", "n", "a", "n", "c", "e">>
Broken == <<"B", "r", "o", "k", "e", "n">>

\* equipmentRoutes.js:6-7
VALID_TYPES == <<Machine, Vessel, Tank, Mixer>>
VALID_STATUSES == <<Active, Inactive, UnderMaintenance>>

\* Array.prototype.includes on an array of strings (strict equality).
Includes(arr, x) == \E i \in 1..Len(arr) : arr[i] = x

\* ------------------------------------------------------------ JSON values
JUndefined == [t |-> "undefined", v |-> <<>>]
JNull == [t |-> "null", v |-> <<>>]
JStr(s) == [t |-> "string", v |-> s]
JNum(digits) == [t |-> "number", v |-> digits]

\* JavaScript truthiness of a JSON value (the operand of ! and &&).
Truthy(x) ==
    CASE x.t = "string" -> x.v # <<>>
      [] x.t = "number" -> x.v # <<"0">>
      [] OTHER -> FALSE

\* String(x): what RegExp.prototype.test coerces its argument to.
ToString(x) ==
    CASE x.t = "undefined" -> <<"u", "n", "d", "e", "f", "i", "n", "e", "d">>
      [] x.t = "null" -> <<"n", "u", "l", "l">>
      [] OTHER -> x.v

Digits == {"0", "1", "2", "3", "4", "5", "6", "7", "8", "9"}

DigitVal(c) ==
    CASE c = "0" -> 0 [] c = "1" -> 1 [] c = "2" -> 2 [] c = "3" -> 3 [] c = "4" -> 4
      [] c = "5" -> 5 [] c = "6" -> 6 [] c = "7" -> 7 [] c = "8" -> 8 [] c = "9" -> 9

\* `${n}` for a natural number n: its decimal digits.
RECURSIVE NumberToString(_)
NumberToString(n) ==
    LET digit == <<"0", "1", "2", "3", "4", "5", "6", "7", "8", "9">>[(n % 10) + 1]
    IN IF n < 10 THEN <<digit>> ELSE NumberToString(n \div 10) \o <<digit>>

\* Characters String.prototype.trim removes (the ones the sample inputs use).
WhiteSpace == {" ", "\t", "\n"}

RECURSIVE TrimStart(_)
TrimStart(s) ==
    IF s # <<>> /\ Head(s) \in WhiteSpace THEN TrimStart(Tail(s)) ELSE s

RECURSIVE TrimEnd(_)
TrimEnd(s) ==
    IF s # <<>> /\ s[Len(s)] \in WhiteSpace
    THEN TrimEnd(SubSeq(s, 1, Len(s) - 1))
    ELSE s

\* A trim that strips the leading white space only.
TrimLeadingOnly(s) == TrimStart(s)

\* String.prototype.trim
Trim(s) == TrimEnd(TrimStart(s))

\* A date test that only counts the characters.
DatePatternTestLength(s) == Len(s) = 10

\* A date test that also wants the month digits to lie in 01..12.
DatePatternTestMonth(s) ==
    /\ Len(s) = 10
    /\ \A i \in {1, 2, 3, 4, 6, 7, 9, 10} : s[i] \in Digits
    /\ s[5] = "-"
    /\ s[8] = "-"
    /\ \/ s[6] = "0" /\ s[7] # "0"
       \/ s[6] = "1" /\ s[7] \in {"0", "1", "2"}

\* /^\d{4}-\d{2}-\d{2}$/.test(s) on the characters of s.
DatePatternTest(s) ==
    /\ Len(s) = 10
    /\ \A i \in {1, 2, 3, 4, 6, 7, 9, 10} : s[i] \in Digits
    /\ s[5] = "-"
    /\ s[8] = "-"

\* ------------------------------------------------- numbers in path strings
\* A decimal literal: digits with at most one ".", at least one digit.  Signs,
\* exponents, hex prefixes and "Infinity" are not modelled; no sample id has them.
IsDecimalLiteral(s) ==
    /\ \A i \in 1..Len(s) : s[i] \in Digits \cup {"."}
    /\ Cardinality({i \in 1..Len(s) : s[i] = "."}) <= 1
    /\ \E i \in 1..Len(s) : s[i] \in Digits

\* The digits of s before its first non-digit.
RECURSIVE DigitPrefix(_)
DigitPrefix(s) ==
    IF s # <<>> /\ Head(s) \in Digits THEN <<Head(s)>> \o DigitPrefix(Tail(s)) ELSE <<>>

RECURSIVE DecimalValue(_)
DecimalValue(ds) ==
    IF ds = <<>> THEN 0
    ELSE 10 * DecimalValue(SubSeq(ds, 1, Len(ds) - 1)) + DigitVal(ds[Len(ds)])

\* The value JSON.stringify writes for NaN is null; -1 stands for it here.
NaN == -1

\* isNaN(s) for a string: Number(s) is NaN.  Number of a blank string is 0.
IsNaN(s) == Trim(s) # <<>> /\ ~IsDecimalLiteral(Trim(s))

\* parseInt(s): the integer written by the leading digits, NaN when there are none.
ParseInt(s) ==
    LET ds == DigitPrefix(TrimStart(s))
    IN IF ds = <<>> THEN NaN ELSE DecimalValue(ds)

\* SQLite comparing the INTEGER column id with a bound TEXT parameter s: the
\* column's affinity converts a well-formed numeric literal to a number first.
TextEqualsInteger(s, k) ==
    /\ IsDecimalLiteral(s)
    /\ DecimalValue(DigitPrefix(s)) = k
    /\ \A i \in 1..Len(s) : i > Len(DigitPrefix(s)) => s[i] \in {".", "0"}

\* ------------------------------------------------------------- the store
\* db.js:21-29: one row of table equipment.
Row(id, name, type, status, date, created, updated) ==
    [id |-> id, name |-> name, type |-> type, status |-> status,
     lastCleanedDate |-> date, createdAt |-> created, updatedAt |-> updated]

\* db.js:23-25: NOT NULL and the two CHECK constraints, on the column values
\* (JSON values: a string or null) of a row about to be written.
TableConstraints(name, type, status) ==
    /\ name.t # "null" /\ type.t # "null" /\ status.t # "null"
    /\ type.t = "string" /\ Includes(<<Machine, Vessel, Tank, Mixer>>, type.v)
    /\ status.t = "string" /\ Includes(<<Active, Inactive, UnderMaintenance>>, status.v)

\* The value db.get resolves with when no row matches (undefined).
NoRow == [id |-> 0]

\* The empty table.
EmptyStore == [i \in {} |-> NoRow]

MaxOf(S) == CHOOSE m \in S : \A x \in S : x <= m

\* A table declared INTEGER PRIMARY KEY without AUTOINCREMENT: the new rowid is
\* one more than the largest rowid now in the table.
NextRowidOfLiveRows(st, sq) == MaxOf({0} \cup DOMAIN st) + 1

\* db.js:22: INTEGER PRIMARY KEY AUTOINCREMENT.  The new rowid is one more than
\* the largest rowid the table has ever held (sq, kept in sqlite_sequence).
NextRowid(st, sq) == MaxOf({sq} \cup DOMAIN st) + 1

\* An INSERT whose column list names status before type, into a table created
\* without the CHECK constraints.
InsertRowUnchecked(st, sq, name, type, status, date, t) ==
    LET id == NextRowid(st, sq)
        row == Row(id, name, status, type, date, t, t)
    IN [ok |-> TRUE,
        store |-> [i \in DOMAIN st \cup {id} |-> IF i = id THEN row ELSE st[i]],
        seq |-> id,
        id |-> id]

\* db.run of the INSERT of equipmentRoutes.js:65-69 at store time t.
\* createdAt and updatedAt take DEFAULT CURRENT_TIMESTAMP.
InsertRow(st, sq, name, type, status, date, t) ==
    IF ~TableConstraints(name, type, status)
    THEN [ok |-> FALSE, store |-> st, seq |-> sq, id |-> 0]
    ELSE LET id == NextRowid(st, sq)
             row == Row(id, name, type, status, date, t, t)
         IN [ok |-> TRUE,
             store |-> [i \in DOMAIN st \cup {id} |-> IF i = id THEN row ELSE st[i]],
             seq |-> id,
             id |-> id]

\* db.get('SELECT * FROM equipment WHERE id = ?', [k]) with the integer k
\* (result.id of the INSERT).
GetByRowid(st, k) == IF k \in DOMAIN st THEN st[k] ELSE NoRow

\* The rowids a WHERE id = ? selects when the parameter is the path text s.
Matching(st, s) == {k \in DOMAIN st : TextEqualsInteger(s, k)}

\* db.get('SELECT * FROM equipment WHERE id = ?', [id]) with the path text.
GetById(st, s) ==
    IF Matching(st, s) = {} THEN NoRow ELSE st[CHOOSE k \in Matching(st, s) : TRUE]

\* One row after the SET list sets (a sequence of <<column, value>>) and
\* updatedAt = CURRENT_TIMESTAMP are applied to it.
RECURSIVE ApplySets(_, _)
ApplySets(row, sets) ==
    IF sets = <<>> THEN row
    ELSE ApplySets([row EXCEPT ![Head(sets)[1]] = Head(sets)[2]], Tail(sets))

\* An UPDATE whose SET list also writes createdAt = CURRENT_TIMESTAMP.
UpdateRowsTouchCreated(st, sets, s, t) ==
    [ok |-> TRUE,
     store |-> [k \in DOMAIN st |->
                  IF TextEqualsInteger(s, k)
                  THEN [ApplySets(st[k], sets) EXCEPT !.updatedAt = t, !.createdAt = t]
                  ELSE st[k]]]

\* An UPDATE whose WHERE clause was left out: every row is written.
UpdateRowsNoWhere(st, sets, s, t) ==
    [ok |-> TRUE,
     store |-> [k \in DOMAIN st |-> [ApplySets(st[k], sets) EXCEPT !.updatedAt = t]]]

\* db.run of the UPDATE of equipmentRoutes.js:186-189.
UpdateRows(st, sets, s, t) ==
    LET new == [k \in DOMAIN st |->
                  IF TextEqualsInteger(s, k)
                  THEN [ApplySets(st[k], sets) EXCEPT !.updatedAt = t]
                  ELSE st[k]]
    IN IF \A k \in DOMAIN new : TableConstraints(new[k].name, new[k].type, new[k].status)
       THEN [ok |-> TRUE, store |-> new]
       ELSE [ok |-> FALSE, store |-> st]

\* A DELETE whose WHERE clause was left out: every row goes.
DeleteRowsAll(st, s) == [k \in {} |-> NoRow]

\* A DELETE that matches no row (the id compared as text, never equal).
DeleteRowsNoMatch(st, s) == st

\* db.run('DELETE FROM equipment WHERE id = ?', [id]).
DeleteRows(st, s) == [k \in DOMAIN st \ Matching(st, s) |-> st[k]]

\* The same SELECT with ORDER BY id ASC.
RECURSIVE SelectAllAsc(_)
SelectAllAsc(st) ==
    IF DOMAIN st = {} THEN <<>>
    ELSE LET m == MaxOf(DOMAIN st)
         IN SelectAllAsc([k \in DOMAIN st \ {m} |-> st[k]]) \o <<st[m]>>

\* db.all('SELECT * FROM equipment ORDER BY id DESC').
RECURSIVE SelectAllDesc(_)
SelectAllDesc(st) ==
    IF DOMAIN st = {} THEN <<>>
    ELSE LET m == MaxOf(DOMAIN st)
         IN <<st[m]>> \o SelectAllDesc([k \in DOMAIN st \ {m} |-> st[k]])

\* ------------------------------------------------------- request handlers
\* A request body: the four keys the handlers destructure from req.body.
Body(name, type, status, date) ==
    [name |-> name, type |-> type, status |-> status, lastCleanedDate |-> date]

\* A POST validation without the status check.
CreateErrorsNoStatus(b) ==
    (IF ~Truthy(b.name) \/ b.name.t # "string" \/ Trim(b.name.v) = <<>>
     THEN <<"name is required and must be a non-empty string">> ELSE <<>>)
    \o
    (IF ~Truthy(b.type) \/ ~(b.type.t = "string" /\ Includes(VALID_TYPES, b.type.v))
     THEN <<"type is required and must be one of: Machine, Vessel, Tank, Mixer">>
     ELSE <<>>)
    \o
    (IF Truthy(b.lastCleanedDate) /\ ~DatePatternTest(ToString(b.lastCleanedDate))
     THEN <<"lastCleanedDate must be in YYYY-MM-DD format">> ELSE <<>>)

\* A POST validation that stops at the first failed field, as PUT does.
CreateErrorsFirstOnly(b) ==
    IF ~Truthy(b.name) \/ b.name.t # "string" \/ Trim(b.name.v) = <<>>
    THEN <<"name is required and must be a non-empty string">>
    ELSE IF ~Truthy(b.type) \/ ~(b.type.t = "string" /\ Includes(VALID_TYPES, b.type.v))
    THEN <<"type is required and must be one of: Machine, Vessel, Tank, Mixer">>
    ELSE IF ~Truthy(b.status)
            \/ ~(b.status.t = "string" /\ Includes(VALID_STATUSES, b.status.v))
    THEN <<"status is required and must be one of: Active, Inactive, Under Maintenance">>
    ELSE IF Truthy(b.lastCleanedDate) /\ ~DatePatternTest(ToString(b.lastCleanedDate))
    THEN <<"lastCleanedDate must be in YYYY-MM-DD format">>
    ELSE <<>>

\* equipmentRoutes.js:37-54: the errors array of POST, in push order.
CreateErrors(b) ==
    (IF ~Truthy(b.name) \/ b.name.t # "string" \/ Trim(b.name.v) = <<>>
     THEN <<"name is required and must be a non-empty string">> ELSE <<>>)
    \o
    (IF ~Truthy(b.type) \/ ~(b.type.t = "string" /\ Includes(VALID_TYPES, b.type.v))
     THEN <<"type is required and must be one of: Machine, Vessel, Tank, Mixer">>
     ELSE <<>>)
    \o
    (IF ~Truthy(b.status)
        \/ ~(b.status.t = "string" /\ Includes(VALID_STATUSES, b.status.v))
     THEN <<"status is required and must be one of: Active, Inactive, Under Maintenance">>
     ELSE <<>>)
    \o
    (IF Truthy(b.lastCleanedDate) /\ ~DatePatternTest(ToString(b.lastCleanedDate))
     THEN <<"lastCleanedDate must be in YYYY-MM-DD format">> ELSE <<>>)

\* equipmentRoutes.js:33-90: POST /equipment on store st, sequence sq, time t.
PostEquipment(b, st, sq, t) ==
    LET errors == CreateErrors(b)
        result == InsertRow(st, sq, JStr(Trim(b.name.v)), b.type, b.status,
                            IF Truthy(b.lastCleanedDate) THEN b.lastCleanedDate ELSE JNull,
                            t)
    IN IF Len(errors) > 0
       THEN [store |-> st, seq |-> sq,
             resp |-> [status |-> 400,
                       body |-> [success |-> FALSE, error |-> "Validation failed",
                                 details |-> errors]]]
       ELSE IF ~result.ok
       THEN [store |-> st, seq |-> sq,
             resp |-> [status |-> 500,
                       body |-> [success |-> FALSE, error |-> "Failed to create equipment",
                                 message |-> "SQLITE_CONSTRAINT"]]]
       ELSE [store |-> result.store, seq |-> result.seq,
             resp |-> [status |-> 201,
                       body |-> [success |-> TRUE,
                                 message |-> "Equipment created successfully",
                                 data |-> GetByRowid(result.store, result.id)]]]

\* A PUT validation that looks at status before name and type.
UpdateErrorStatusFirst(b) ==
    IF b.status.t # "undefined"
       /\ ~(b.status.t = "string" /\ Includes(VALID_STATUSES, b.status.v))
    THEN "status must be one of: Active, Inactive, Under Maintenance"
    ELSE IF b.name.t # "undefined" /\ (b.name.t # "string" \/ Trim(b.name.v) = <<>>)
    THEN "name must be a non-empty string"
    ELSE IF b.type.t # "undefined"
            /\ ~(b.type.t = "string" /\ Includes(VALID_TYPES, b.type.v))
    THEN "type must be one of: Machine, Vessel, Tank, Mixer"
    ELSE IF b.lastCleanedDate.t # "undefined" /\ b.lastCleanedDate.t # "null"
            /\ ~DatePatternTest(ToString(b.lastCleanedDate))
    THEN "lastCleanedDate must be in YYYY-MM-DD format"
    ELSE ""

\* equipmentRoutes.js:126-172: the message of the first invalid supplied field,
\* in the order name, type, status, lastCleanedDate; "" when none is invalid.
UpdateError(b) ==
    IF b.name.t # "undefined" /\ (b.name.t # "string" \/ Trim(b.name.v) = <<>>)
    THEN "name must be a non-empty string"
    ELSE IF b.type.t # "undefined"
            /\ ~(b.type.t = "string" /\ Includes(VALID_TYPES, b.type.v))
    THEN "type must be one of: Machine, Vessel, Tank, Mixer"
    ELSE IF b.status.t # "undefined"
            /\ ~(b.status.t = "string" /\ Includes(VALID_STATUSES, b.status.v))
    THEN "status must be one of: Active, Inactive, Under Maintenance"
    ELSE IF b.lastCleanedDate.t # "undefined" /\ b.lastCleanedDate.t # "null"
            /\ ~DatePatternTest(ToString(b.lastCleanedDate))
    THEN "lastCleanedDate must be in YYYY-MM-DD format"
    ELSE ""

\* The updates array with the date pushed under 'if (lastCleanedDate)', as the
\* POST handler tests it: a null date counts as not supplied.
UpdateSetsNullAbsent(b) ==
    (IF b.name.t # "undefined" THEN <<<<"name", JStr(Trim(b.name.v))>>>> ELSE <<>>)
    \o (IF b.type.t # "undefined" THEN <<<<"type", b.type>>>> ELSE <<>>)
    \o (IF b.status.t # "undefined" THEN <<<<"status", b.status>>>> ELSE <<>>)
    \o (IF Truthy(b.lastCleanedDate)
        THEN <<<<"lastCleanedDate", b.lastCleanedDate>>>> ELSE <<>>)

\* The updates array with 'updatedAt = CURRENT_TIMESTAMP' pushed before the
\* fields instead of after the length check.
UpdateSetsTimestampFirst(b) ==
    <<<<"updatedAt", 0>>>>
    \o (IF b.name.t # "undefined" THEN <<<<"name", JStr(Trim(b.name.v))>>>> ELSE <<>>)
    \o (IF b.type.t # "undefined" THEN <<<<"type", b.type>>>> ELSE <<>>)
    \o (IF b.status.t # "undefined" THEN <<<<"status", b.status>>>> ELSE <<>>)
    \o (IF b.lastCleanedDate.t # "undefined"
        THEN <<<<"lastCleanedDate", b.lastCleanedDate>>>> ELSE <<>>)

\* equipmentRoutes.js:123-172: the updates and params arrays, paired, for a body
\* that passed every check.
UpdateSets(b) ==
    (IF b.name.t # "undefined" THEN <<<<"name", JStr(Trim(b.name.v))>>>> ELSE <<>>)
    \o (IF b.type.t # "undefined" THEN <<<<"type", b.type>>>> ELSE <<>>)
    \o (IF b.status.t # "undefined" THEN <<<<"status", b.status>>>> ELSE <<>>)
    \o (IF b.lastCleanedDate.t # "undefined"
        THEN <<<<"lastCleanedDate", b.lastCleanedDate>>>> ELSE <<>>)

\* A PUT handler that validates the body before it looks the record up.
PutEquipmentValidateFirst(id, b, st, t) ==
    LET existing == GetById(st, id)
        result == UpdateRows(st, UpdateSets(b), id, t)
    IN IF id = <<>> \/ IsNaN(id)
       THEN [store |-> st,
             resp |-> [status |-> 400,
                       body |-> [success |-> FALSE, error |-> "Invalid equipment ID"]]]
       ELSE IF UpdateError(b) # ""
       THEN [store |-> st,
             resp |-> [status |-> 400,
                       body |-> [success |-> FALSE, error |-> "Validation failed",
                                 details |-> <<UpdateError(b)>>]]]
       ELSE IF Len(UpdateSets(b)) = 0
       THEN [store |-> st,
             resp |-> [status |-> 400,
                       body |-> [success |-> FALSE, error |-> "No fields to update"]]]
       ELSE IF existing = NoRow
       THEN [store |-> st,
             resp |-> [status |-> 404,
                       body |-> [success |-> FALSE, error |-> "Equipment not found",
                                 id |-> ParseInt(id)]]]
       ELSE [store |-> result.store,
             resp |-> [status |-> 200,
                       body |-> [success |-> TRUE,
                                 message |-> "Equipment updated successfully",
                                 data |-> GetById(result.store, id)]]]

\* equipmentRoutes.js:95-210: PUT /equipment/:id on store st at time t.
PutEquipment(id, b, st, t) ==
    LET existing == GetById(st, id)
        result == UpdateRows(st, UpdateSets(b), id, t)
    IN IF id = <<>> \/ IsNaN(id)
       THEN [store |-> st,
             resp |-> [status |-> 400,
                       body |-> [success |-> FALSE, error |-> "Invalid equipment ID"]]]
       ELSE IF existing = NoRow
       THEN [store |-> st,
             resp |-> [status |-> 404,
                       body |-> [success |-> FALSE, error |-> "Equipment not found",
                                 id |-> ParseInt(id)]]]
       ELSE IF UpdateError(b) # ""
       THEN [store |-> st,
             resp |-> [status |-> 400,
                       body |-> [success |-> FALSE, error |-> "Validation failed",
                                 details |-> <<UpdateError(b)>>]]]
       ELSE IF Len(UpdateSets(b)) = 0
       THEN [store |-> st,
             resp |-> [status |-> 400,
                       body |-> [success |-> FALSE, error |-> "No fields to update"]]]
       ELSE IF ~result.ok
       THEN [store |-> st,
             resp |-> [status |-> 500,
                       body |-> [success |-> FALSE, error |-> "Failed to update equipment",
                                 message |-> "SQLITE_CONSTRAINT"]]]
       ELSE [store |-> result.store,
             resp |-> [status |-> 200,
                       body |-> [success |-> TRUE,
                                 message |-> "Equipment updated successfully",
                                 data |-> GetById(result.store, id)]]]

\* equipmentRoutes.js:215-257: DELETE /equipment/:id on store st.
DeleteEquipment(id, st) ==
    IF id = <<>> \/ IsNaN(id)
    THEN [store |-> st,
          resp |-> [status |-> 400,
                    body |-> [success |-> FALSE, error |-> "Invalid equipment ID"]]]
    ELSE IF GetById(st, id) = NoRow
    THEN [store |-> st,
          resp |-> [status |-> 404,
                    body |-> [success |-> FALSE, error |-> "Equipment not found",
                              id |-> ParseInt(id)]]]
    ELSE [store |-> DeleteRows(st, id),
          resp |-> [status |-> 200,
                    body |-> [success |-> TRUE,
                              message |-> "Equipment deleted successfully",
                              id |-> ParseInt(id)]]]

\* equipmentRoutes.js:12-28: GET /equipment on store st.
GetEquipment(st) ==
    LET equipment == SelectAllDesc(st)
    IN [status |-> 200,
        body |-> [success |-> TRUE, count |-> Len(equipment), data |-> equipment]]

\* --------------------------------------------------------- store failures
\* db.js:40-76: run, all and get reject with the error sqlite3 hands them.  A
\* fault names the store call of a handler (first, second, third) that rejects
\* and the error's message; call 0 is no fault.
NoFault == [call |-> 0, message |-> ""]
StoreErrors == {"SQLITE_BUSY: database is locked", "SQLITE_IOERR: disk I/O error"}
Faults == [call : 1..3, message : StoreErrors]

\* A handler whose catch block is missing: the rejection escapes the async
\* handler and nothing is sent.
UncaughtRejection(error, message) == [status |-> 0, body |-> [success |-> FALSE]]

\* The catch block of a handler (equipmentRoutes.js:20-27, 82-89, 202-209,
\* 249-256): the response for a rejected store call.
CaughtRejection(error, message) ==
    [status |-> 500,
     body |-> [success |-> FALSE, error |-> error, message |-> message]]

\* GET /equipment when store call f.call rejects: the handler's one call is db.all.
GetWithFault(st, f) ==
    IF f.call = 1
    THEN CaughtRejection("Failed to fetch equipment", f.message)
    ELSE GetEquipment(st)

\* POST /equipment when store call f.call rejects: the INSERT is the first call,
\* the SELECT of the new row the second; a body that fails validation makes none.
PostWithFault(b, st, sq, t, f) ==
    LET out == PostEquipment(b, st, sq, t)
    IN IF f.call = 0 \/ Len(CreateErrors(b)) > 0 THEN out
       ELSE IF f.call = 1
       THEN [store |-> st, seq |-> sq,
             resp |-> CaughtRejection("Failed to create equipment", f.message)]
       ELSE IF f.call = 2 /\ out.resp.status = 201
       THEN [store |-> out.store, seq |-> out.seq,
             resp |-> CaughtRejection("Failed to create equipment", f.message)]
       ELSE out

\* PUT /equipment/:id when store call f.call rejects: the SELECT of the existing
\* row is the first call, the UPDATE the second, the SELECT of the result the
\* third.
PutWithFault(id, b, st, t, f) ==
    LET out == PutEquipment(id, b, st, t)
    IN IF f.call = 0 \/ id = <<>> \/ IsNaN(id) THEN out
       ELSE IF f.call = 1
       THEN [store |-> st,
             resp |-> CaughtRejection("Failed to update equipment", f.message)]
       ELSE IF GetById(st, id) = NoRow \/ UpdateError(b) # "" \/ Len(UpdateSets(b)) = 0
       THEN out
       ELSE IF f.call = 2
       THEN [store |-> st,
             resp |-> CaughtRejection("Failed to update equipment", f.message)]
       ELSE IF out.resp.status = 200
       THEN [store |-> out.store,
             resp |-> CaughtRejection("Failed to update equipment", f.message)]
       ELSE out

\* DELETE /equipment/:id when store call f.call rejects: the SELECT is the first
\* call, the DELETE the second.
DeleteWithFault(id, st, f) ==
    LET out == DeleteEquipment(id, st)
    IN IF f.call = 0 \/ id = <<>> \/ IsNaN(id) THEN out
       ELSE IF f.call = 1
       THEN [store |-> st,
             resp |-> CaughtRejection("Failed to delete equipment", f.message)]
       ELSE IF f.call = 2 /\ out.resp.status = 200
       THEN [store |-> st,
             resp |-> CaughtRejection("Failed to delete equipment", f.message)]
       ELSE out

\* ---------------------------------------------------------------- dates
\* The days of month m of year y.
DaysInMonth(y, m) ==
    IF m \in {4, 6, 9, 11} THEN 30
    ELSE IF m # 2 THEN 31
    ELSE IF y % 4 = 0 /\ (y % 100 # 0 \/ y % 400 = 0) THEN 29 ELSE 28

RECURSIVE DaysBeforeMonth(_, _)
DaysBeforeMonth(y, m) ==
    IF m = 1 THEN 0 ELSE DaysBeforeMonth(y, m - 1) + DaysInMonth(y, m - 1)

\* The number of the day written s (YYYY-MM-DD), counted from 0001-01-01.
DayNumber(s) ==
    LET y == DecimalValue(SubSeq(s, 1, 4))
        m == DecimalValue(SubSeq(s, 6, 7))
        d == DecimalValue(SubSeq(s, 9, 10))
    IN 365 * (y - 1) + (y - 1) \div 4 - (y - 1) \div 100 + (y - 1) \div 400
       + DaysBeforeMonth(y, m) + d

\* new Date(s) of a date-only string is Invalid Date: the month or the day is
\* out of range.  (Engines differ on a day past the month's end but not past
\* 31; no sample has one.)
IsInvalidDate(s) ==
    LET y == DecimalValue(SubSeq(s, 1, 4))
        m == DecimalValue(SubSeq(s, 6, 7))
        d == DecimalValue(SubSeq(s, 9, 10))
    IN ~(m \in 1..12 /\ d \in 1..DaysInMonth(y, m))

\* new Date(s) of a date-only string: midnight UTC of that day, in hours.
DateOnlyHours(s) == 24 * DayNumber(s)

\* A browser clock c: the local date, the local hour of the day, and the hours
\* its time zone is ahead of UTC.  today.setHours(23, 59, 59, 999) is the last
\* millisecond before this hour (UTC), the end of the local day.
EndOfTodayHours(c) == 24 * (DayNumber(c.date) + 1) - c.offset

\* new Date().toISOString().split('T')[0]: the day it is in UTC.
UtcDayNumber(c) == DayNumber(c.date) + (c.hour - c.offset) \div 24

\* ------------------------------------------------------------ client form
\* EquipmentForm.tsx:26-30: the form's state; "" is no error message.
NoErrors == [name |-> "", lastCleanedDate |-> ""]
EmptyForm ==
    [name |-> <<>>, type |-> Machine, status |-> Active, lastCleanedDate |-> <<>>,
     errors |-> NoErrors]

\* EquipmentForm.tsx:52-81 validateForm: the errors of form state f on clock c.
\* date > today compares whole hours with the last millisecond before an hour.
ValidateForm(f, c) ==
    [name |->
        IF Trim(f.name) = <<>> THEN "Name is required"
        ELSE IF Len(Trim(f.name)) < 2 THEN "Name must be at least 2 characters"
        ELSE IF Len(Trim(f.name)) > 100 THEN "Name must be less than 100 characters"
        ELSE "",
     lastCleanedDate |->
        IF f.lastCleanedDate = <<>> THEN ""
        ELSE IF ~DatePatternTest(f.lastCleanedDate) THEN "Invalid date format"
        ELSE IF ~IsInvalidDate(f.lastCleanedDate)
                /\ DateOnlyHours(f.lastCleanedDate) >= EndOfTodayHours(c)
        THEN "Date cannot be in the future"
        ELSE ""]

\* EquipmentForm.tsx:90-95: the argument of onSubmit.
FormData(f) ==
    Body(JStr(Trim(f.name)), JStr(f.type), JStr(f.status),
         IF f.lastCleanedDate = <<>> THEN JNull ELSE JStr(f.lastCleanedDate))

\* The browser lets the submit event through: the date input's value is empty
\* or not past its max attribute (EquipmentForm.tsx:182), and the submit button
\* is enabled (isValid, line 108).
SubmitAllowed(f, c) ==
    /\ Trim(f.name) # <<>>
    /\ IF f.lastCleanedDate = <<>> THEN TRUE
       ELSE DayNumber(f.lastCleanedDate) <= UtcDayNumber(c)

\* ---------------------------------------------------- client list view
\* The characters of the samples in the order of their UTF-16 code units.
CodeUnits ==
    <<" ", "-", ".", "/", "0", "1", "2", "3", "4", "5", "6", "7", "8", "9",
      "A", "B", "C", "D", "E", "F", "G", "H", "I", "J", "K", "L", "M",
      "N", "O", "P", "Q", "R", "S", "T", "U", "V", "W", "X", "Y", "Z",
      "a", "b", "c", "d", "e", "f", "g", "h", "i", "j", "k", "l", "m",
      "n", "o", "p", "q", "r", "s", "t", "u", "v", "w", "x", "y", "z">>

\* The place of each character in that order.
CharCode ==
    [c \in {CodeUnits[i] : i \in 1..Len(CodeUnits)} |->
        CHOOSE i \in 1..Len(CodeUnits) : CodeUnits[i] = c]

\* The lower-case letter of each character: "a".."z" follow "A".."Z" 26 places on.
LowerCase ==
    [c \in DOMAIN CharCode |->
        IF CharCode[c] \in CharCode["A"]..CharCode["Z"]
        THEN CodeUnits[CharCode[c] + 26]
        ELSE c]

\* String.prototype.toLowerCase
ToLowerCase(s) == [i \in 1..Len(s) |-> LowerCase[s[i]]]

\* a < b on two strings: the first differing code unit decides, a proper prefix
\* is smaller.
RECURSIVE StringLess(_, _)
StringLess(a, b) ==
    IF b = <<>> THEN FALSE
    ELSE IF a = <<>> THEN TRUE
    ELSE IF Head(a) = Head(b) THEN StringLess(Tail(a), Tail(b))
    ELSE CharCode[Head(a)] < CharCode[Head(b)]

\* String.prototype.includes
StringIncludes(s, q) ==
    \E i \in 0..Len(s) : i + Len(q) <= Len(s) /\ SubSeq(s, i + 1, i + Len(q)) = q

\* The value of the filter selects for 'all'.
All == <<"a", "l", "l">>

\* a[sortField] ?? '' on a record whose columns are strings or null.
SortValue(item, field) == IF item[field] = JNull THEN <<>> ELSE item[field].v

\* A comparator that leaves out the toLowerCase calls.
CompareCaseSensitive(a, b, field, direction) ==
    LET aValue == SortValue(a, field)
        bValue == SortValue(b, field)
    IN IF StringLess(aValue, bValue) THEN (IF direction = "asc" THEN -1 ELSE 1)
       ELSE IF StringLess(bValue, aValue) THEN (IF direction = "asc" THEN 1 ELSE -1)
       ELSE 0

\* EquipmentForm.tsx:304-316: the comparator handed to result.sort.
Compare(a, b, field, direction) ==
    LET aValue == ToLowerCase(SortValue(a, field))
        bValue == ToLowerCase(SortValue(b, field))
    IN IF StringLess(aValue, bValue) THEN (IF direction = "asc" THEN -1 ELSE 1)
       ELSE IF StringLess(bValue, aValue) THEN (IF direction = "asc" THEN 1 ELSE -1)
       ELSE 0

\* Array.prototype.sort is stable: x goes behind every element that does not
\* compare greater than it.
RECURSIVE InsertSorted(_, _, _, _)
InsertSorted(sorted, x, field, direction) ==
    IF sorted = <<>> THEN <<x>>
    ELSE IF Compare(Head(sorted), x, field, direction) <= 0
    THEN <<Head(sorted)>> \o InsertSorted(Tail(sorted), x, field, direction)
    ELSE <<x>> \o sorted

RECURSIVE ArraySort(_, _, _)
ArraySort(arr, field, direction) ==
    IF arr = <<>> THEN <<>>
    ELSE InsertSorted(ArraySort(SubSeq(arr, 1, Len(arr) - 1), field, direction),
                      arr[Len(arr)], field, direction)

\* EquipmentForm.tsx:280-320 filteredAndSortedEquipment over the cached list, the
\* search text q, the type and status filters tf and sf, the sort field and the
\* direction: the memo's value, and the cached array after it ran
\* ([...equipment] is a copy; sort works on the copy).
FilteredAndSortedEquipment(list, q, tf, sf, field, direction) ==
    LET query == ToLowerCase(q)
        searched ==
            IF q = <<>> THEN list
            ELSE SelectSeq(list,
                           LAMBDA item :
                               \/ StringIncludes(ToLowerCase(item.name.v), query)
                               \/ StringIncludes(ToLowerCase(item.type.v), query)
                               \/ StringIncludes(ToLowerCase(item.status.v), query))
        typed ==
            IF tf = All THEN searched
            ELSE SelectSeq(searched, LAMBDA item : item.type.v = tf)
        result ==
            IF sf = All THEN typed
            ELSE SelectSeq(typed, LAMBDA item : item.status.v = sf)
    IN [result |-> ArraySort(result, field, direction),
        equipment |-> list]

\* ------------------------------------------------------------ sample inputs
Tank1 == <<"T", "a", "n", "k", " ", "1">>
PaddedMixerA == <<" ", "M", "i", "x", "e", "r", " ", "A", " ">>
Blank == <<" ", " ">>
Date1 == <<"2", "0", "2", "5", "-", "1", "2", "-", "1", "5">>
Date2 == <<"2", "0", "2", "5", "-", "1", "3", "-", "4", "0">>
SlashDate == <<"1", "2", "/", "1", "5", "/", "2", "0", "2", "5">>

\* Path ids: two that can exist, one that never does, a fraction, an integer
\* written with a fraction part, and one that is not a number.
IdParams ==
    {<<"1">>, <<"2">>, <<"9">>, <<"1", ".", "5">>, <<"2", ".", "0">>, <<"a", "b", "c">>}

NameInputs == {JUndefined, JNull, JNum(<<"7">>), JStr(<<>>), JStr(Blank), JStr(Tank1),
               JStr(PaddedMixerA)}
TypeInputs == {JUndefined, JNull, JStr(<<>>), JStr(Pump), JStr(Machine), JStr(Tank)}
StatusInputs == {JUndefined, JNull, JStr(<<>>), JStr(Broken), JStr(Active),
                 JStr(UnderMaintenance)}
DateInputs == {JUndefined, JNull, JNum(<<"0">>), JStr(<<>>), JStr(SlashDate), JStr(Date1),
               JStr(Date2)}

\* The bodies of the specification SpecFields, which has up to MaxSeqFields
\* records: every combination of an absent, an invalid and a valid value of the
\* four fields, a valid body with one field replaced by each other input, and a
\* body whose only key is a null lastCleanedDate.
ValidBody == [name |-> JStr(Tank1), type |-> JStr(Tank), status |-> JStr(Active),
              lastCleanedDate |-> JStr(Date1)]
FieldBodies ==
    {[name |-> n, type |-> ty, status |-> st, lastCleanedDate |-> d] :
        n \in {JUndefined, JStr(Blank), JStr(Tank1)},
        ty \in {JUndefined, JStr(Pump), JStr(Tank)},
        st \in {JUndefined, JStr(Broken), JStr(Active)},
        d \in {JUndefined, JStr(SlashDate), JStr(Date1)}}
    \cup {[ValidBody EXCEPT !.name = n] : n \in NameInputs}
    \cup {[ValidBody EXCEPT !.type = ty] : ty \in TypeInputs}
    \cup {[ValidBody EXCEPT !.status = st] : st \in StatusInputs}
    \cup {[ValidBody EXCEPT !.lastCleanedDate = d] : d \in DateInputs}
    \cup {Body(JUndefined, JUndefined, JUndefined, JNull)}
FieldIds == {<<"1">>, <<"9">>, <<"a", "b", "c">>}

EmptyBody == Body(JUndefined, JUndefined, JUndefined, JUndefined)

\* The bodies of the specification Spec, which has up to MaxSeq records: a valid
\* and an invalid record for POST; for PUT one field, three fields, no field and
\* an invalid field.
CreateBodies ==
    {Body(JStr(Tank1), JStr(Tank), JStr(Active), JUndefined),
     Body(JStr(Blank), JStr(Pump), JStr(Active), JUndefined)}
UpdateBodies ==
    {Body(JUndefined, JUndefined, JStr(UnderMaintenance), JUndefined),
     Body(JStr(PaddedMixerA), JStr(Machine), JUndefined, JStr(Date2)),
     EmptyBody,
     Body(JUndefined, JStr(Pump), JStr(Active), JUndefined)}

\* The client form: names that are blank, one character and valid; the days
\* before, of and after the browser's local date; browser clocks in the morning
\* and the late afternoon, behind, at and ahead of UTC.
Dec14 == <<"2", "0", "2", "5", "-", "1", "2", "-", "1", "4">>
Dec16 == <<"2", "0", "2", "5", "-", "1", "2", "-", "1", "6">>
Dec17 == <<"2", "0", "2", "5", "-", "1", "2", "-", "1", "7">>
FormNames == {<<>>, <<"T">>, Tank1}
FormDates == {<<>>, Dec14, Date1, Dec16, Dec17}
Clocks == {[date |-> Date1, hour |-> h, offset |-> o] : h \in {10, 17}, o \in {-8, 0, 5}}
FormApiBodies ==
    {Body(JStr(Tank1), JStr(Tank), JStr(Active), JStr(d)) : d \in {Dec14, Dec17}}

\* The list view: cached records whose names differ in case only or sort
\* differently with and without case, a record without a date; search texts in
\* lower and upper case, and one that occurs in dates only.
CacheNames ==
    <<Tank1, <<"m", "i", "x", "e", "r", " ", "a">>,
      <<"t", "a", "n", "k", " ", "1">>, <<"M", "i", "x", "e", "r", " ", "B">>>>
CacheTypes == <<Tank, Mixer, Vessel, Machine>>
CacheStatuses == <<Active, Inactive, UnderMaintenance, Active>>
CacheDates == <<JStr(Date1), JNull, JStr(Dec14), JStr(Dec16)>>
CacheRow(i) ==
    LET j == ((i - 1) % 4) + 1
    IN Row(i, JStr(CacheNames[j]), JStr(CacheTypes[j]), JStr(CacheStatuses[j]),
           CacheDates[j], 0, 0)
\* The responses of GET /equipment over stores with some of the records
\* 1..MaxCache: newest first.
Caches == {SelectAllDesc([i \in S |-> CacheRow(i)]) : S \in SUBSET (1..MaxCache)}
Queries ==
    {<<>>, <<"t", "a", "n", "k">>, <<"A", "C", "T">>, <<"m", "i", "x">>,
     <<"2", "0", "2", "5">>}
TypeFilters == {All, Tank, Mixer}
StatusFilters == {All, Active, Inactive}
SortFields == {"name", "type", "status", "lastCleanedDate"}

Request(op, id, b) == [op |-> op, id |-> id, body |-> b]

Requests(creates, updates, ids) ==
    {Request("create", <<>>, b) : b \in creates}
    \cup {Request("update", id, b) : id \in ids, b \in updates}
    \cup {Request("delete", id, EmptyBody) : id \in ids}
    \cup {Request("list", <<>>, EmptyBody)}

NoRequest == Request("none", <<>>, EmptyBody)
NoResponse == [status |-> 0, body |-> [success |-> FALSE]]

\* Handlers side by side: the ids their requests name, the bodies of their
\* updates (two that write the same column), a handler that serves nothing, and
\* the tally before any response.
ConcIds == {<<"1">>, <<"2">>}
ConcUpdateBodies ==
    {Body(JUndefined, JUndefined, JStr(UnderMaintenance), JUndefined),
     Body(JUndefined, JUndefined, JStr(Inactive), JUndefined)}
ConcRequests == Requests({ValidBody}, ConcUpdateBodies, ConcIds)
NoHandler == [op |-> "none", id |-> <<>>, body |-> EmptyBody, pc |-> "idle", lastID |-> 0,
              resp |-> NoResponse]
NoneAnswered == [created |-> 0, deleted |-> [id \in ConcIds |-> 0]]

\* ------------------------------------------------------------------- state
VARIABLES
    store,    \* table equipment: rowid -> row
    seq,      \* sqlite_sequence: the largest rowid ever assigned
    now,      \* CURRENT_TIMESTAMP
    phase,    \* "idle", "pending" (a request is with its handler), "done"
    req,      \* the request being served
    resp,     \* the response sent for it
    issued,   \* the ids that 201 responses have returned so far
    deleted,  \* the ids whose delete was answered 200 and that no create returned since
    fault,    \* the store call that rejects while req is served, and its message
    form,     \* EquipmentForm: name, type, status, lastCleanedDate, errors
    today,    \* the browser's clock
    equipment,      \* Index: the cached list (data of the 'equipment' query)
    searchQuery,    \* Index: the search text
    typeFilter,     \* Index: 'all' or a type
    statusFilter,   \* Index: 'all' or a status
    sortField,      \* Index: the column the table is sorted by
    sortDirection,  \* Index: 'asc' or 'desc'
    displayed,      \* the value of filteredAndSortedEquipment the table shows
    editingEquipment, \* Index: the record being edited, NoRow (null) when none is
    handlers, \* the route handlers that run side by side, each at one of its awaits
    answered, \* how many 201 creates were sent, and per id how many 200 deletes
    submitted \* the data the form passed to onSubmit for the request in flight

\* The state of the browser.
page == <<equipment, searchQuery, typeFilter, statusFilter, sortField, sortDirection,
          displayed>>
client == <<form, today, page, editingEquipment>>

\* The state of the handlers that run side by side.
workers == <<handlers, answered>>

vars == <<store, seq, now, phase, req, resp, issued, deleted, fault, submitted, client,
          workers>>

ServerInit ==
    /\ store = EmptyStore
    /\ seq = 0
    /\ now = 0
    /\ phase = "idle"
    /\ req = NoRequest
    /\ resp = NoResponse
    /\ issued = {}
    /\ deleted = {}
    /\ fault = NoFault
    /\ submitted = EmptyBody
    /\ handlers = [h \in 1..MaxHandlers |-> NoHandler]
    /\ answered = NoneAnswered

\* EquipmentForm.tsx:226-240: the page before the list has been fetched.
PageInit ==
    /\ searchQuery = <<>>
    /\ typeFilter = All
    /\ statusFilter = All
    /\ sortField = "name"
    /\ sortDirection = "asc"
    /\ editingEquipment = NoRow

\* The server has started; a browser shows the empty form and an empty list.
Init ==
    /\ ServerInit
    /\ form = EmptyForm
    /\ today = [date |-> Date1, hour |-> 10, offset |-> 0]
    /\ PageInit
    /\ equipment = <<>>
    /\ displayed = <<>>

\* The same, the browser being in any of the sample time zones and hours.
InitForm ==
    /\ ServerInit
    /\ form = EmptyForm
    /\ today \in Clocks
    /\ PageInit
    /\ equipment = <<>>
    /\ displayed = <<>>

\* The page with a list fetched from some store.
InitView ==
    /\ ServerInit
    /\ form = EmptyForm
    /\ today = [date |-> Date1, hour |-> 10, offset |-> 0]
    /\ PageInit
    /\ equipment \in Caches
    /\ displayed = FilteredAndSortedEquipment(equipment, searchQuery, typeFilter,
                                              statusFilter, sortField,
                                              sortDirection).result

\* A client sends one request of R; the router hands it to its handler.
Receive(R, maxSeq) ==
    /\ phase = "idle"
    /\ \E r \in R :
          /\ r.op = "create" => seq < maxSeq
          /\ req' = r
    /\ phase' = "pending"
    /\ fault' = NoFault
    /\ UNCHANGED <<store, seq, now, resp, issued, deleted, submitted, client>>
    /\ UNCHANGED workers

\* The same, and one of the store calls made for the request will reject.
ReceiveFaulty(R, maxSeq) ==
    /\ phase = "idle"
    /\ \E r \in R :
          /\ r.op = "create" => seq < maxSeq
          /\ req' = r
    /\ phase' = "pending"
    /\ fault' \in Faults
    /\ UNCHANGED <<store, seq, now, resp, issued, deleted, submitted, client>>
    /\ UNCHANGED workers

\* router.post('/equipment')
Create ==
    /\ phase = "pending" /\ req.op = "create"
    /\ LET out == PostWithFault(req.body, store, seq, now, fault)
       IN /\ store' = out.store
          /\ seq' = out.seq
          /\ resp' = out.resp
          /\ issued' = IF out.resp.status = 201
                       THEN issued \cup {out.resp.body.data.id} ELSE issued
          /\ deleted' = IF out.resp.status = 201
                        THEN deleted \ {out.resp.body.data.id} ELSE deleted
    /\ phase' = "done"
    /\ UNCHANGED <<now, req, fault, submitted, client>>
    /\ UNCHANGED workers

\* router.put('/equipment/:id')
Update ==
    /\ phase = "pending" /\ req.op = "update"
    /\ LET out == PutWithFault(req.id, req.body, store, now, fault)
       IN /\ store' = out.store
          /\ resp' = out.resp
    /\ phase' = "done"
    /\ UNCHANGED <<seq, now, req, issued, deleted, fault, submitted, client>>
    /\ UNCHANGED workers

\* router.delete('/equipment/:id')
Delete ==
    /\ phase = "pending" /\ req.op = "delete"
    /\ LET out == DeleteWithFault(req.id, store, fault)
       IN /\ store' = out.store
          /\ resp' = out.resp
          /\ deleted' = IF out.resp.status = 200
                        THEN deleted \cup {out.resp.body.id} ELSE deleted
    /\ phase' = "done"
    /\ UNCHANGED <<seq, now, req, issued, fault, submitted, client>>
    /\ UNCHANGED workers

\* router.get('/equipment')
List ==
    /\ phase = "pending" /\ req.op = "list"
    /\ resp' = GetWithFault(store, fault)
    /\ phase' = "done"
    /\ UNCHANGED <<store, seq, now, req, issued, deleted, fault, submitted, client>>
    /\ UNCHANGED workers

\* The client has read the response; the exchange is over.
Deliver ==
    /\ phase = "done"
    /\ phase' = "idle"
    /\ req' = NoRequest
    /\ resp' = NoResponse
    /\ fault' = NoFault
    /\ submitted' = EmptyBody
    /\ UNCHANGED <<store, seq, now, issued, deleted, client>>
    /\ UNCHANGED workers

\* The store's clock moves on by a second between two requests.
Tick(maxTime) ==
    /\ phase = "idle"
    /\ now < maxTime
    /\ now' = now + 1
    /\ UNCHANGED <<store, seq, phase, req, resp, issued, deleted, fault, submitted, client>>
    /\ UNCHANGED workers

Next ==
    \/ Receive(Requests(CreateBodies, UpdateBodies, IdParams), MaxSeq)
    \/ Create
    \/ Update
    \/ Delete
    \/ List
    \/ Deliver
    \/ Tick(MaxTime)

Spec == Init /\ [][Next]_vars

\* The same server, few records, asked with every body of FieldBodies.
NextFields ==
    \/ Receive(Requests(FieldBodies, FieldBodies, FieldIds), MaxSeqFields)
    \/ Create
    \/ Update
    \/ Delete
    \/ List
    \/ Deliver
    \/ Tick(MaxTime)

SpecFields == Init /\ [][NextFields]_vars

\* The same server over a store whose calls can reject.
NextFaults ==
    \/ Receive(Requests(CreateBodies, UpdateBodies, FieldIds), MaxSeqFaults)
    \/ ReceiveFaulty(Requests(CreateBodies, UpdateBodies, FieldIds), MaxSeqFaults)
    \/ Create
    \/ Update
    \/ Delete
    \/ List
    \/ Deliver
    \/ Tick(MaxTime)

SpecFaults == Init /\ [][NextFaults]_vars

\* ------------------------------------------------------- the client form
\* The state the form's handlers leave alone.
server == <<store, seq, now, phase, req, resp, issued, deleted, fault, submitted>>

\* EquipmentForm.tsx:124-129: onChange of the name input.
SetName(n) ==
    /\ phase = "idle"
    /\ form' = [form EXCEPT !.name = n,
                            !.errors.name = IF Trim(n) # <<>> THEN "" ELSE @]
    /\ UNCHANGED <<server, today, page, editingEquipment>>
    /\ UNCHANGED workers

\* EquipmentForm.tsx:142: onValueChange of the type select.
SetType(t) ==
    /\ phase = "idle"
    /\ form' = [form EXCEPT !.type = t]
    /\ UNCHANGED <<server, today, page, editingEquipment>>
    /\ UNCHANGED workers

\* EquipmentForm.tsx:157: onValueChange of the status select.
SetStatus(s) ==
    /\ phase = "idle"
    /\ form' = [form EXCEPT !.status = s]
    /\ UNCHANGED <<server, today, page, editingEquipment>>
    /\ UNCHANGED workers

\* EquipmentForm.tsx:176-181: onChange of the date input.
SetLastCleanedDate(d) ==
    /\ phase = "idle"
    /\ form' = [form EXCEPT !.lastCleanedDate = d, !.errors.lastCleanedDate = ""]
    /\ UNCHANGED <<server, today, page, editingEquipment>>
    /\ UNCHANGED workers

\* EquipmentForm.tsx:83-101 handleSubmit, with the page's handleSubmit (322-328)
\* and addMutation / updateMutation behind onSubmit: a form that validates is
\* sent as a PUT for the record being edited, or as a POST when none is, and is
\* reset after a POST only; one that does not validate shows its errors.  The
\* inputs are disabled while a request is pending.
HandleSubmit(maxSeq) ==
    /\ phase = "idle"
    /\ editingEquipment = NoRow => seq < maxSeq
    /\ SubmitAllowed(form, today)
    /\ LET newErrors == ValidateForm(form, today)
       IN IF newErrors # NoErrors
          THEN /\ form' = [form EXCEPT !.errors = newErrors]
               /\ UNCHANGED <<phase, req, submitted>>
          ELSE /\ form' = IF editingEquipment = NoRow
                          THEN EmptyForm
                          ELSE [form EXCEPT !.errors = newErrors]
               /\ submitted' = FormData(form)
               /\ req' = IF editingEquipment = NoRow
                         THEN Request("create", <<>>, FormData(form))
                         ELSE Request("update", NumberToString(editingEquipment.id),
                                      FormData(form))
               /\ phase' = "pending"
    /\ UNCHANGED <<store, seq, now, resp, issued, deleted, fault, today, page,
                   editingEquipment>>
    /\ UNCHANGED workers

\* The form in the browser, the server behind it, and other clients of the API.
NextForm ==
    \/ \E n \in FormNames : SetName(n)
    \/ \E t \in {Machine, Tank} : SetType(t)
    \/ \E s \in {Active, Inactive} : SetStatus(s)
    \/ \E d \in FormDates : SetLastCleanedDate(d)
    \/ HandleSubmit(MaxSeqForm)
    \/ Receive(Requests(FormApiBodies, FormApiBodies, {<<"1">>}), MaxSeqForm)
    \/ Create
    \/ Update
    \/ Delete
    \/ List
    \/ Deliver

SpecForm == InitForm /\ [][NextForm]_vars

\* --------------------------------------------------------- the list view
\* The page renders again: the memo is recomputed from the cached list and the
\* new values of its other dependencies.
Rerender ==
    LET memo == FilteredAndSortedEquipment(equipment, searchQuery', typeFilter',
                                           statusFilter', sortField', sortDirection')
    IN /\ displayed' = memo.result
       /\ equipment' = memo.equipment

\* EquipmentForm.tsx:385: onChange of the search input.
SetSearchQuery(q) ==
    /\ searchQuery' = q
    /\ UNCHANGED <<typeFilter, statusFilter, sortField, sortDirection>>
    /\ Rerender
    /\ UNCHANGED <<server, form, today, editingEquipment>>
    /\ UNCHANGED workers

\* EquipmentForm.tsx:393: onValueChange of the type filter.
SetTypeFilter(tf) ==
    /\ typeFilter' = tf
    /\ UNCHANGED <<searchQuery, statusFilter, sortField, sortDirection>>
    /\ Rerender
    /\ UNCHANGED <<server, form, today, editingEquipment>>
    /\ UNCHANGED workers

\* EquipmentForm.tsx:409: onValueChange of the status filter.
SetStatusFilter(sf) ==
    /\ statusFilter' = sf
    /\ UNCHANGED <<searchQuery, typeFilter, sortField, sortDirection>>
    /\ Rerender
    /\ UNCHANGED <<server, form, today, editingEquipment>>
    /\ UNCHANGED workers

\* EquipmentForm.tsx:343-350 toggleSort.
ToggleSort(field) ==
    /\ IF sortField = field
       THEN /\ sortDirection' = IF sortDirection = "asc" THEN "desc" ELSE "asc"
            /\ UNCHANGED sortField
       ELSE /\ sortField' = field
            /\ sortDirection' = "asc"
    /\ UNCHANGED <<searchQuery, typeFilter, statusFilter>>
    /\ Rerender
    /\ UNCHANGED <<server, form, today, editingEquipment>>
    /\ UNCHANGED workers

NextView ==
    \/ \E q \in Queries : SetSearchQuery(q)
    \/ \E tf \in TypeFilters : SetTypeFilter(tf)
    \/ \E sf \in StatusFilters : SetStatusFilter(sf)
    \/ \E field \in SortFields : ToggleSort(field)

SpecView == InitView /\ [][NextView]_vars

\* ------------------------------------------------- the page and its server
\* One browser showing the page, alone with the server; one request of the page
\* is with the server at a time.

\* response.ok && result.success (part_001:25-32, 45, 60, 71).
Ok(r) == r.status \in 200..299 /\ r.body.success

\* EquipmentForm.tsx:32-42: the form's effect on a new editingEquipment.
FormOf(item) ==
    IF item = NoRow THEN EmptyForm
    ELSE [name |-> item.name.v, type |-> item.type.v, status |-> item.status.v,
          lastCleanedDate |->
              IF Truthy(item.lastCleanedDate) THEN item.lastCleanedDate.v ELSE <<>>,
          errors |-> NoErrors]

\* The page is mounted: useQuery (EquipmentForm.tsx:237-240) has sent its first
\* GET /equipment.
InitPage ==
    /\ store = EmptyStore
    /\ seq = 0
    /\ now = 0
    /\ phase = "pending"
    /\ req = Request("list", <<>>, EmptyBody)
    /\ resp = NoResponse
    /\ issued = {}
    /\ deleted = {}
    /\ fault = NoFault
    /\ submitted = EmptyBody
    /\ handlers = [h \in 1..MaxHandlers |-> NoHandler]
    /\ answered = NoneAnswered
    /\ form = EmptyForm
    /\ today = [date |-> Date1, hour |-> 10, offset |-> 0]
    /\ PageInit
    /\ equipment = <<>>
    /\ displayed = <<>>

\* db.js:40-76: a store call of the handler that serves the request rejects.
Reject(f) ==
    /\ phase = "pending"
    /\ fault = NoFault
    /\ fault' = f
    /\ UNCHANGED <<store, seq, now, phase, req, resp, issued, deleted, submitted, client>>
    /\ UNCHANGED workers

\* EquipmentForm.tsx:330-333 handleEdit, from the Edit button of the i-th
\* displayed row while no request is pending, and the form's effect.
HandleEdit(i) ==
    /\ phase = "idle"
    /\ i <= Len(displayed)
    /\ editingEquipment # displayed[i]
    /\ editingEquipment' = displayed[i]
    /\ form' = FormOf(displayed[i])
    /\ UNCHANGED <<server, today, page>>
    /\ UNCHANGED workers

\* EquipmentForm.tsx:103-106 and 339-341 handleCancel, from the Cancel button,
\* which is there while a record is edited and no add or update is pending.
HandleCancel ==
    /\ editingEquipment # NoRow
    /\ ~(phase # "idle" /\ req.op \in {"create", "update"})
    /\ editingEquipment' = NoRow
    /\ form' = EmptyForm
    /\ UNCHANGED <<server, today, page>>
    /\ UNCHANGED workers

\* EquipmentForm.tsx:335-337 handleDelete with deleteMutation (268-277) and
\* deleteEquipment (part_001:66-69), from the Delete dialog of the i-th
\* displayed row.
HandleDelete(i) ==
    /\ phase = "idle"
    /\ i <= Len(displayed)
    /\ req' = Request("delete", NumberToString(displayed[i].id), EmptyBody)
    /\ phase' = "pending"
    /\ UNCHANGED <<store, seq, now, resp, issued, deleted, fault, submitted, client>>
    /\ UNCHANGED workers

\* An onSuccess that leaves out queryClient.invalidateQueries.
OnSuccessWithoutInvalidate ==
    /\ phase = "done"
    /\ req.op \in {"create", "update", "delete"}
    /\ Ok(resp)
    /\ req' = NoRequest
    /\ phase' = "idle"
    /\ resp' = NoResponse
    /\ fault' = NoFault
    /\ submitted' = EmptyBody
    /\ IF req.op = "update"
       THEN /\ editingEquipment' = NoRow
            /\ form' = FormOf(NoRow)
       ELSE UNCHANGED <<editingEquipment, form>>
    /\ UNCHANGED <<store, seq, now, issued, deleted, today, page>>
    /\ UNCHANGED workers

\* onSuccess of addMutation, updateMutation and deleteMutation
\* (EquipmentForm.tsx:246-249, 258-262, 271-274): the response is ok; the
\* 'equipment' query is invalidated, which sends GET /equipment again, and an
\* update leaves edit mode.
OnSuccess ==
    /\ phase = "done"
    /\ req.op \in {"create", "update", "delete"}
    /\ Ok(resp)
    /\ req' = Request("list", <<>>, EmptyBody)
    /\ phase' = "pending"
    /\ resp' = NoResponse
    /\ fault' = NoFault
    /\ submitted' = EmptyBody
    /\ IF req.op = "update"
       THEN /\ editingEquipment' = NoRow
            /\ form' = FormOf(NoRow)
       ELSE UNCHANGED <<editingEquipment, form>>
    /\ UNCHANGED <<store, seq, now, issued, deleted, today, page>>
    /\ UNCHANGED workers

\* onError of the three mutations (EquipmentForm.tsx:250-252, 263-265, 275-277):
\* the response is not ok; a toast shows the error and nothing else happens.
OnError ==
    /\ phase = "done"
    /\ req.op \in {"create", "update", "delete"}
    /\ ~Ok(resp)
    /\ req' = NoRequest
    /\ phase' = "idle"
    /\ resp' = NoResponse
    /\ fault' = NoFault
    /\ submitted' = EmptyBody
    /\ UNCHANGED <<store, seq, now, issued, deleted, client>>
    /\ UNCHANGED workers

\* getEquipment (part_001:23-34) has its response: an ok one becomes the data of
\* the 'equipment' query and the memo is recomputed; after one that is not ok
\* the query keeps the data it had.
QuerySettled ==
    /\ phase = "done"
    /\ req.op = "list"
    /\ LET data == IF Ok(resp) THEN resp.body.data ELSE equipment
       IN /\ equipment' = data
          /\ displayed' = FilteredAndSortedEquipment(data, searchQuery, typeFilter,
                                                     statusFilter, sortField,
                                                     sortDirection).result
    /\ req' = NoRequest
    /\ phase' = "idle"
    /\ resp' = NoResponse
    /\ fault' = NoFault
    /\ UNCHANGED <<store, seq, now, issued, deleted, submitted, form, today,
                   searchQuery, typeFilter, statusFilter, sortField, sortDirection,
                   editingEquipment>>
    /\ UNCHANGED workers

\* What the user types into the name input, and the store failures met.
PageNames == {Tank1, <<"m", "i", "x", "e", "r", " ", "a">>}
PageFaults == {f \in Faults : f.message = "SQLITE_BUSY: database is locked"}

NextPage ==
    \/ \E n \in PageNames : SetName(n)
    \/ HandleSubmit(MaxSeqPage)
    \/ \E i \in 1..MaxSeqPage : HandleEdit(i)
    \/ HandleCancel
    \/ \E i \in 1..MaxSeqPage : HandleDelete(i)
    \/ \E f \in PageFaults : Reject(f)
    \/ Create
    \/ Update
    \/ Delete
    \/ List
    \/ OnSuccess
    \/ OnError
    \/ QuerySettled

SpecPage == InitPage /\ [][NextPage]_vars

\* ------------------------------------------------ handlers side by side
\* Node runs a handler up to its next await and serves other requests while
\* the store call is out; sqlite3 runs the calls one at a time.  Each action
\* below is one store call of one handler with the code that follows it up to
\* the next call or the response.

\* The state every action of this section leaves alone.
sequential == <<phase, req, resp, issued, deleted, fault, submitted, client>>

\* The creates that have arrived and not yet run their INSERT.
CreatesWaiting ==
    Cardinality({h \in DOMAIN handlers :
                    handlers[h].op = "create" /\ handlers[h].pc = "start"})

\* A request arrives and is given to a handler.
Arrive(h, r) ==
    /\ handlers[h].pc = "idle"
    /\ \A g \in 1..(h - 1) : handlers[g].pc # "idle"
    /\ r.op = "create" => seq + CreatesWaiting < MaxSeqConcurrent
    /\ handlers' = [handlers EXCEPT ![h] =
                       [op |-> r.op, id |-> r.id, body |-> r.body, pc |-> "start",
                        lastID |-> 0, resp |-> NoResponse]]
    /\ UNCHANGED <<store, seq, now, answered, sequential>>

\* equipmentRoutes.js:33-69: router.post up to the end of its INSERT.
PostInsert(h) ==
    /\ handlers[h].op = "create" /\ handlers[h].pc = "start"
    /\ LET out == PostEquipment(handlers[h].body, store, seq, now)
       IN IF out.resp.status # 201
          THEN /\ handlers' = [handlers EXCEPT ![h].pc = "done", ![h].resp = out.resp]
               /\ UNCHANGED <<store, seq>>
          ELSE /\ store' = out.store
               /\ seq' = out.seq
               /\ handlers' = [handlers EXCEPT ![h].pc = "get", ![h].lastID = out.seq]
    /\ UNCHANGED <<now, answered, sequential>>

\* equipmentRoutes.js:72-81: the SELECT of the new row, and the 201.
PostSelect(h) ==
    /\ handlers[h].op = "create" /\ handlers[h].pc = "get"
    /\ LET newEquipment == GetByRowid(store, handlers[h].lastID)
       IN handlers' = [handlers EXCEPT
             ![h].pc = "done",
             ![h].resp = [status |-> 201,
                          body |-> [success |-> TRUE,
                                    message |-> "Equipment created successfully",
                                    data |-> newEquipment]]]
    /\ answered' = [answered EXCEPT !.created = @ + 1]
    /\ UNCHANGED <<store, seq, now, sequential>>

\* equipmentRoutes.js:95-183: router.put up to its UPDATE: the id check, the
\* SELECT of the existing row, and the checks of the body.
PutExisting(h) ==
    /\ handlers[h].op = "update" /\ handlers[h].pc = "start"
    /\ LET out == PutEquipment(handlers[h].id, handlers[h].body, store, now)
       IN handlers' = IF out.resp.status # 200
                      THEN [handlers EXCEPT ![h].pc = "done", ![h].resp = out.resp]
                      ELSE [handlers EXCEPT ![h].pc = "run"]
    /\ UNCHANGED <<store, seq, now, answered, sequential>>

\* equipmentRoutes.js:186-189: the UPDATE.
PutRun(h) ==
    /\ handlers[h].op = "update" /\ handlers[h].pc = "run"
    /\ LET result == UpdateRows(store, UpdateSets(handlers[h].body), handlers[h].id, now)
       IN /\ store' = result.store
          /\ handlers' =
                IF result.ok THEN [handlers EXCEPT ![h].pc = "get"]
                ELSE [handlers EXCEPT
                         ![h].pc = "done",
                         ![h].resp = CaughtRejection("Failed to update equipment",
                                                     "SQLITE_CONSTRAINT")]
    /\ UNCHANGED <<seq, now, answered, sequential>>

\* equipmentRoutes.js:192-201: the SELECT of the updated row, and the 200.
PutSelect(h) ==
    /\ handlers[h].op = "update" /\ handlers[h].pc = "get"
    /\ LET updated == GetById(store, handlers[h].id)
       IN handlers' = [handlers EXCEPT
             ![h].pc = "done",
             ![h].resp = [status |-> 200,
                          body |-> [success |-> TRUE,
                                    message |-> "Equipment updated successfully",
                                    data |-> updated]]]
    /\ UNCHANGED <<store, seq, now, answered, sequential>>

\* equipmentRoutes.js:215-239: router.delete up to its DELETE: the id check and
\* the SELECT of the existing row.
DeleteExisting(h) ==
    /\ handlers[h].op = "delete" /\ handlers[h].pc = "start"
    /\ LET out == DeleteEquipment(handlers[h].id, store)
       IN handlers' = IF out.resp.status # 200
                      THEN [handlers EXCEPT ![h].pc = "done", ![h].resp = out.resp]
                      ELSE [handlers EXCEPT ![h].pc = "run"]
    /\ UNCHANGED <<store, seq, now, answered, sequential>>

\* equipmentRoutes.js:242-248: the DELETE, and the 200.
DeleteRun(h) ==
    /\ handlers[h].op = "delete" /\ handlers[h].pc = "run"
    /\ store' = DeleteRows(store, handlers[h].id)
    /\ handlers' = [handlers EXCEPT
          ![h].pc = "done",
          ![h].resp = [status |-> 200,
                       body |-> [success |-> TRUE,
                                 message |-> "Equipment deleted successfully",
                                 id |-> ParseInt(handlers[h].id)]]]
    /\ answered' = [answered EXCEPT !.deleted[handlers[h].id] = @ + 1]
    /\ UNCHANGED <<seq, now, sequential>>

\* equipmentRoutes.js:12-19: router.get, whose one store call is the SELECT.
GetAll(h) ==
    /\ handlers[h].op = "list" /\ handlers[h].pc = "start"
    /\ handlers' = [handlers EXCEPT ![h].pc = "done", ![h].resp = GetEquipment(store)]
    /\ UNCHANGED <<store, seq, now, answered, sequential>>

\* The client has read the handler's response.
Finish(h) ==
    /\ handlers[h].pc = "done"
    /\ handlers' = [handlers EXCEPT ![h] = NoHandler]
    /\ UNCHANGED <<store, seq, now, answered, sequential>>

NextConcurrent ==
    \/ \E h \in 1..MaxHandlers, r \in ConcRequests : Arrive(h, r)
    \/ \E h \in 1..MaxHandlers : PostInsert(h)
    \/ \E h \in 1..MaxHandlers : PostSelect(h)
    \/ \E h \in 1..MaxHandlers : PutExisting(h)
    \/ \E h \in 1..MaxHandlers : PutRun(h)
    \/ \E h \in 1..MaxHandlers : PutSelect(h)
    \/ \E h \in 1..MaxHandlers : DeleteExisting(h)
    \/ \E h \in 1..MaxHandlers : DeleteRun(h)
    \/ \E h \in 1..MaxHandlers : GetAll(h)
    \/ \E h \in 1..MaxHandlers : Finish(h)

SpecConcurrent == Init /\ [][NextConcurrent]_vars

\* ============================================================== properties
Fields == {"name", "type", "status", "lastCleanedDate"}

\* The fields a request body supplies (JSON cannot carry undefined).
Supplied(b) == {f \in Fields : b[f].t # "undefined"}

\* A handler has just answered a request of kind op.
Answered(op) == phase = "pending" /\ req.op = op /\ phase' = "done"

\* The path id s is a number and names no record of st.
NumericAndAbsent(s, st) ==
    /\ s # <<>> /\ ~IsNaN(s)
    /\ ~\E k \in DOMAIN st : TextEqualsInteger(s, k)

\* C1: every create answered 201 returns an id strictly greater than the id of
\* every earlier 201, deleted or not: ids are never reused.
C1_CreatedIdsIncrease ==
    [][(Answered("create") /\ resp'.status = 201)
          => \A i \in issued : resp'.body.data.id > i]_vars

\* A create was answered 201 after an earlier record had been deleted.
C1_Witness ==
    /\ phase = "done" /\ req.op = "create" /\ resp.status = 201
    /\ \E i \in issued : i < resp.body.data.id /\ i \notin DOMAIN store

\* C2: the list answers 200 with every stored record exactly once, in strictly
\* descending id order, and count is the number of records returned.
C2_ListNewestFirst ==
    (phase = "done" /\ req.op = "list") =>
        LET data == resp.body.data
        IN /\ resp.status = 200
           /\ {data[i].id : i \in 1..Len(data)} = DOMAIN store
           /\ \A i \in 1..Len(data) : data[i] = store[data[i].id]
           /\ \A i, j \in 1..Len(data) : i < j => data[i].id > data[j].id
           /\ resp.body.count = Len(data)

\* The list of three records created in the order 1, 2, 3 is 3, 2, 1.
C2_Witness ==
    /\ phase = "done" /\ req.op = "list"
    /\ Len(resp.body.data) = 3
    /\ resp.body.data[1].id = 3 /\ resp.body.data[2].id = 2 /\ resp.body.data[3].id = 1

\* What a successful update of record k leaves alone and what it writes: the
\* set of records, every other record, the unsupplied fields of k; each supplied
\* field holds the value the body gave (the name trimmed).
UpdateFrame(k) ==
    /\ k \in DOMAIN store
    /\ DOMAIN store' = DOMAIN store
    /\ \A j \in DOMAIN store \ {k} : store'[j] = store[j]
    /\ \A f \in Fields \ Supplied(req.body) : store'[k][f] = store[k][f]
    /\ \A f \in Supplied(req.body) \ {"name"} : store'[k][f] = req.body[f]
    /\ "name" \in Supplied(req.body) => store'[k].name = JStr(Trim(req.body.name.v))

\* C3 as stated: a successful update changes exactly the supplied fields of the
\* record, leaves all else unchanged, and advances the record's updatedAt.
C3_UpdateAdvancesUpdatedAt ==
    [][(Answered("update") /\ resp'.status = 200) =>
          LET k == resp'.body.data.id
          IN UpdateFrame(k) /\ store'[k].updatedAt > store[k].updatedAt]_vars

\* C3 amended: a successful update changes exactly the supplied fields of the
\* record, leaves all else unchanged, and sets updatedAt to the store's current
\* time in whole seconds, which is never earlier than the value it replaces.
C3_UpdateSetsUpdatedAt ==
    [][(Answered("update") /\ resp'.status = 200) =>
          LET k == resp'.body.data.id
          IN /\ UpdateFrame(k)
             /\ store'[k].updatedAt = now
             /\ store'[k].updatedAt >= store[k].updatedAt]_vars

\* An update of status alone succeeded on one of two records, a second after
\* that record was created.
C3_Witness ==
    /\ phase = "done" /\ req.op = "update" /\ resp.status = 200
    /\ Supplied(req.body) = {"status"}
    /\ Cardinality(DOMAIN store) >= 2
    /\ resp.body.data.updatedAt > resp.body.data.createdAt

\* C4: a delete of an existing id is answered 200, and a later delete of that id,
\* no create having returned the id in between, is answered 404.
C4_DeleteTwice ==
    [][Answered("delete") =>
          /\ \A k \in DOMAIN store :
                TextEqualsInteger(req.id, k) => (resp'.status = 200 /\ k \in deleted')
          /\ \A k \in deleted :
                TextEqualsInteger(req.id, k) => resp'.status = 404]_vars

\* The second delete of an id was answered 404.
C4_Witness ==
    /\ phase = "done" /\ req.op = "delete" /\ resp.status = 404
    /\ resp.body.id \in deleted
    /\ TextEqualsInteger(req.id, resp.body.id)

\* C5: an update of a numeric id that is not in the store is answered 404 with
\* that id echoed, whatever the body, and the store is unchanged.
C5_UpdateMissingEchoesId ==
    [][(Answered("update") /\ NumericAndAbsent(req.id, store)) =>
          /\ resp'.status = 404
          /\ TextEqualsInteger(req.id, resp'.body.id)
          /\ store' = store]_vars

\* The path id s names a record of st.
NamesRecord(s, st) == \E k \in DOMAIN st : TextEqualsInteger(s, k)

\* C6 as stated: an update whose body supplies no field is answered 400
\* "No fields to update" and the store is unchanged.
C6_EmptyUpdateRejected ==
    [][(Answered("update") /\ Supplied(req.body) = {}) =>
          /\ resp'.status = 400
          /\ resp'.body.error = "No fields to update"
          /\ store' = store]_vars

\* C6 amended: an update of an existing record whose body supplies no field is
\* answered 400 "No fields to update" and the store is unchanged.
C6_EmptyUpdateOfExistingRejected ==
    [][(Answered("update") /\ NamesRecord(req.id, store) /\ Supplied(req.body) = {}) =>
          /\ resp'.status = 400
          /\ resp'.body.error = "No fields to update"
          /\ store' = store]_vars

\* An empty update of an existing record was answered "No fields to update".
C6_Witness ==
    /\ phase = "done" /\ req.op = "update" /\ Supplied(req.body) = {}
    /\ NamesRecord(req.id, store)
    /\ resp.status = 400 /\ resp.body.error = "No fields to update"

\* The field rules of create, as the claims state them.
NameFails(b) == b.name.t # "string" \/ Trim(b.name.v) = <<>>
TypeFails(b) == ~(b.type.t = "string" /\ b.type.v \in {Machine, Vessel, Tank, Mixer})
StatusFails(b) ==
    ~(b.status.t = "string" /\ b.status.v \in {Active, Inactive, UnderMaintenance})
\* lastCleanedDate is present (neither absent nor null) and does not match.
DateFailsAsStated(b) ==
    /\ b.lastCleanedDate.t \notin {"undefined", "null"}
    /\ ~DatePatternTest(ToString(b.lastCleanedDate))
\* The same, an empty string and the number 0 counting as absent.
DateFails(b) ==
    /\ DateFailsAsStated(b)
    /\ b.lastCleanedDate \notin {JStr(<<>>), JNum(<<"0">>)}

\* C7 as stated: a create is answered 400 exactly when name, type, status or a
\* present lastCleanedDate fails its rule, and 201 otherwise; a 400 stores
\* nothing and consumes no id.
C7_CreateRejectsAsStated ==
    [][Answered("create") =>
          LET b == req.body
              bad == NameFails(b) \/ TypeFails(b) \/ StatusFails(b) \/ DateFailsAsStated(b)
          IN /\ resp'.status = IF bad THEN 400 ELSE 201
             /\ resp'.status = 400 => (store' = store /\ seq' = seq)]_vars

\* C7 amended: the same, where a lastCleanedDate that is an empty string (or
\* another falsy value) counts as absent: it is accepted and stored as no date.
C7_CreateRejects ==
    [][Answered("create") =>
          LET b == req.body
              bad == NameFails(b) \/ TypeFails(b) \/ StatusFails(b) \/ DateFails(b)
          IN /\ resp'.status = IF bad THEN 400 ELSE 201
             /\ resp'.status = 400 => (store' = store /\ seq' = seq)]_vars

\* A create with lastCleanedDate "" was answered 201 and stored no date.
C7_Witness ==
    /\ phase = "done" /\ req.op = "create" /\ resp.status = 201
    /\ req.body.lastCleanedDate = JStr(<<>>)
    /\ resp.body.data.lastCleanedDate = JNull

CreateMessage ==
    [name |-> "name is required and must be a non-empty string",
     type |-> "type is required and must be one of: Machine, Vessel, Tank, Mixer",
     status |-> "status is required and must be one of: Active, Inactive, Under Maintenance",
     lastCleanedDate |-> "lastCleanedDate must be in YYYY-MM-DD format"]

FieldRank == [name |-> 1, type |-> 2, status |-> 3, lastCleanedDate |-> 4]

CreateFailed(b) ==
    {f \in Fields :
        \/ f = "name" /\ NameFails(b)
        \/ f = "type" /\ TypeFails(b)
        \/ f = "status" /\ StatusFails(b)
        \/ f = "lastCleanedDate" /\ DateFails(b)}

\* C8: the details of a create's 400 hold exactly one message for each field
\* that failed, none for a field that passed, in the order name, type, status,
\* date.
C8_CreateCollectsAllErrors ==
    (phase = "done" /\ req.op = "create" /\ resp.status = 400) =>
        LET d == resp.body.details
            failed == CreateFailed(req.body)
        IN /\ Len(d) = Cardinality(failed)
           /\ \A f \in failed : \E i \in 1..Len(d) : d[i] = CreateMessage[f]
           /\ \A i \in 1..Len(d) : \E f \in failed : d[i] = CreateMessage[f]
           /\ \A i, j \in 1..Len(d) :
                 i < j => \A f, g \in failed :
                             (d[i] = CreateMessage[f] /\ d[j] = CreateMessage[g])
                                => FieldRank[f] < FieldRank[g]

\* A create failed on type and on date but not on name and status.
C8_Witness ==
    /\ phase = "done" /\ req.op = "create" /\ resp.status = 400
    /\ CreateFailed(req.body) = {"type", "lastCleanedDate"}
    /\ Len(resp.body.details) = 2

UpdateMessage ==
    [name |-> "name must be a non-empty string",
     type |-> "type must be one of: Machine, Vessel, Tank, Mixer",
     status |-> "status must be one of: Active, Inactive, Under Maintenance",
     lastCleanedDate |-> "lastCleanedDate must be in YYYY-MM-DD format"]

\* The supplied fields of an update body that break their rule.
UpdateInvalid(b) ==
    {f \in Supplied(b) :
        \/ f = "name" /\ NameFails(b)
        \/ f = "type" /\ TypeFails(b)
        \/ f = "status" /\ StatusFails(b)
        \/ f = "lastCleanedDate" /\ DateFailsAsStated(b)}

\* C9: an update of an existing record that supplies invalid fields is answered
\* 400 with one message, for the first invalid field in the order name, type,
\* status, lastCleanedDate, and nothing is written.
C9_UpdateFailsFast ==
    [][(Answered("update") /\ NamesRecord(req.id, store)
        /\ UpdateInvalid(req.body) # {}) =>
          LET inv == UpdateInvalid(req.body)
              first == CHOOSE f \in inv : \A g \in inv : FieldRank[f] <= FieldRank[g]
          IN /\ resp'.status = 400
             /\ resp'.body.details = <<UpdateMessage[first]>>
             /\ store' = store]_vars

\* An update with a valid name and an invalid status and date was refused with
\* the status message alone.
C9_Witness ==
    /\ phase = "done" /\ req.op = "update" /\ resp.status = 400
    /\ NamesRecord(req.id, store)
    /\ "name" \in Supplied(req.body)
    /\ UpdateInvalid(req.body) = {"status", "lastCleanedDate"}
    /\ resp.body.details = <<UpdateMessage["status"]>>

\* C10: every stored record's type and status are members of their enumerations.
C10_EnumerationsHold ==
    \A k \in DOMAIN store :
        /\ store[k].type \in {JStr(Machine), JStr(Vessel), JStr(Tank), JStr(Mixer)}
        /\ store[k].status \in {JStr(Active), JStr(Inactive), JStr(UnderMaintenance)}

\* An update of a stored record to a type outside the enumeration was refused.
C10_Witness ==
    /\ phase = "done" /\ req.op = "update" /\ resp.status = 400
    /\ NamesRecord(req.id, store)
    /\ req.body.type = JStr(Pump)

\* t is s without its leading and trailing white space.
IsTrimmedFormOf(t, s) ==
    \E i \in 0..Len(s) : \E j \in i..Len(s) :
        /\ t = SubSeq(s, i + 1, j)
        /\ \A x \in 1..i : s[x] \in WhiteSpace
        /\ \A x \in (j + 1)..Len(s) : s[x] \in WhiteSpace
        /\ t # <<>> => (t[1] \notin WhiteSpace /\ t[Len(t)] \notin WhiteSpace)

\* C11: every stored name is a non-empty string; a create or an update that
\* supplies a name stores the trimmed form of the name it was given, and no other
\* step changes the name of a record.
C11_StoredNameTrimmed ==
    [][/\ \A k \in DOMAIN store' :
             store'[k].name.t = "string" /\ store'[k].name.v # <<>>
       /\ (Answered("create") /\ resp'.status = 201) =>
             IsTrimmedFormOf(store'[resp'.body.data.id].name.v, req.body.name.v)
       /\ \A k \in DOMAIN store \cap DOMAIN store' :
             IF Answered("update") /\ resp'.status = 200
                /\ "name" \in Supplied(req.body) /\ TextEqualsInteger(req.id, k)
             THEN IsTrimmedFormOf(store'[k].name.v, req.body.name.v)
             ELSE store'[k].name = store[k].name]_vars

\* An update that supplied " Mixer A " was answered 200 with the name "Mixer A".
C11_Witness ==
    /\ phase = "done" /\ req.op = "update" /\ resp.status = 200
    /\ req.body.name = JStr(PaddedMixerA)
    /\ resp.body.data.name = JStr(<<"M", "i", "x", "e", "r", " ", "A">>)
    /\ \E k \in DOMAIN store : store[k] = resp.body.data

\* The details of the response hold the date-format message.
DateMessageIn(r) ==
    /\ r.status = 400
    /\ r.body.error = "Validation failed"
    /\ \E i \in 1..Len(r.body.details) :
          r.body.details[i] = "lastCleanedDate must be in YYYY-MM-DD format"

\* The fields of b other than lastCleanedDate that b supplies all pass.
OthersPass(b) ==
    /\ "name" \in Supplied(b) => ~NameFails(b)
    /\ "type" \in Supplied(b) => ~TypeFails(b)
    /\ "status" \in Supplied(b) => ~StatusFails(b)

\* C12 as stated: a create or update whose lastCleanedDate is "2025-13-40" is
\* answered 400 by the date-format check and stores nothing.
C12_MonthThirteenRejected ==
    [][((Answered("create") \/ Answered("update"))
        /\ req.body.lastCleanedDate = JStr(Date2)) =>
          /\ DateMessageIn(resp')
          /\ store' = store]_vars

\* C12 amended: "2025-13-40" passes the date-format check: a create with valid
\* name, type and status, and an update of an existing record whose other
\* supplied fields are valid, are answered 201 and 200 and store the value as
\* given; "12/15/2025" in the same requests is answered 400 with the
\* date-format message and stores nothing.
C12_DateCheckIsPatternOnly ==
    [][/\ (Answered("create") /\ req.body.lastCleanedDate = JStr(Date2)) =>
             /\ ~DateMessageIn(resp')
             /\ (~NameFails(req.body) /\ ~TypeFails(req.body) /\ ~StatusFails(req.body)) =>
                   /\ resp'.status = 201
                   /\ store'[resp'.body.data.id].lastCleanedDate = JStr(Date2)
       /\ (Answered("update") /\ req.body.lastCleanedDate = JStr(Date2)
           /\ NamesRecord(req.id, store) /\ OthersPass(req.body)) =>
             /\ resp'.status = 200
             /\ \A k \in DOMAIN store :
                   TextEqualsInteger(req.id, k) => store'[k].lastCleanedDate = JStr(Date2)
       /\ (Answered("create") /\ req.body.lastCleanedDate = JStr(SlashDate)) =>
             (DateMessageIn(resp') /\ store' = store)
       /\ (Answered("update") /\ req.body.lastCleanedDate = JStr(SlashDate)
           /\ NamesRecord(req.id, store) /\ OthersPass(req.body)) =>
             (DateMessageIn(resp') /\ store' = store)]_vars

\* A create with lastCleanedDate "2025-13-40" was answered 201 and the record
\* holds that value.
C12_Witness ==
    /\ phase = "done" /\ req.op = "create" /\ resp.status = 201
    /\ req.body.lastCleanedDate = JStr(Date2)
    /\ store[resp.body.data.id].lastCleanedDate = JStr(Date2)

\* s is written as four digits, "-", two digits, "-", two digits.
IsYmdText(s) ==
    /\ Len(s) = 10
    /\ \A i \in 1..10 : IF i \in {5, 8} THEN s[i] = "-" ELSE s[i] \in Digits

\* s is written YYYY-MM-DD and names a day of the calendar.
IsCalendarDate(s) ==
    /\ IsYmdText(s)
    /\ LET y == DecimalValue(SubSeq(s, 1, 4))
           m == DecimalValue(SubSeq(s, 6, 7))
           d == DecimalValue(SubSeq(s, 9, 10))
       IN m \in 1..12 /\ d \in 1..DaysInMonth(y, m)

\* C13 as stated: every stored lastCleanedDate is null or a string that names a
\* calendar date written YYYY-MM-DD.
C13_StoredDateIsCalendarDate ==
    \A k \in DOMAIN store :
        \/ store[k].lastCleanedDate = JNull
        \/ /\ store[k].lastCleanedDate.t = "string"
           /\ IsCalendarDate(store[k].lastCleanedDate.v)

\* C13 amended: every stored lastCleanedDate is null or a string of the form
\* four digits, "-", two digits, "-", two digits.
C13_StoredDateIsYmdText ==
    \A k \in DOMAIN store :
        \/ store[k].lastCleanedDate = JNull
        \/ /\ store[k].lastCleanedDate.t = "string"
           /\ IsYmdText(store[k].lastCleanedDate.v)

\* An update has just replaced a record's date, and the store holds records
\* with "2025-12-15" or "2025-13-40".
C13_Witness ==
    /\ phase = "done" /\ req.op = "update" /\ resp.status = 200
    /\ "lastCleanedDate" \in Supplied(req.body)
    /\ \E k \in DOMAIN store :
          /\ store[k].lastCleanedDate \in {JStr(Date1), JStr(Date2)}
          /\ store[k].lastCleanedDate = req.body.lastCleanedDate

\* C14: no step changes the id or the createdAt of a record that stays in the
\* store; a record that enters the store has createdAt equal to updatedAt; and
\* no record ever has updatedAt earlier than createdAt.
C14_IdAndCreatedAtFixed ==
    [][/\ \A k \in DOMAIN store \cap DOMAIN store' :
             /\ store'[k].id = store[k].id
             /\ store'[k].createdAt = store[k].createdAt
       /\ \A k \in DOMAIN store' \ DOMAIN store :
             /\ Answered("create")
             /\ store'[k].id = k
             /\ store'[k].createdAt = store'[k].updatedAt
       /\ \A k \in DOMAIN store' : store'[k].updatedAt >= store'[k].createdAt]_vars

\* A record created in an earlier second was updated after a second record was
\* created: its createdAt is the old second, its updatedAt the new one.
C14_Witness ==
    /\ phase = "done" /\ req.op = "update" /\ resp.status = 200
    /\ \E k \in DOMAIN store :
          /\ store[k] = resp.body.data
          /\ store[k].createdAt < store[k].updatedAt
          /\ \E j \in DOMAIN store :
                j > k /\ store[j].createdAt = store[j].updatedAt
                      /\ store[j].createdAt > store[k].createdAt

\* C15: in an update of an existing record whose supplied fields are valid, a
\* null lastCleanedDate is a supplied field (the update is answered 200 even
\* when it is the only key) and leaves the stored date null; an absent
\* lastCleanedDate leaves the stored date as it was.
C15_NullClearsAbsentKeeps ==
    [][(Answered("update") /\ NamesRecord(req.id, store)
        /\ UpdateInvalid(req.body) = {}) =>
          \A k \in DOMAIN store : TextEqualsInteger(req.id, k) =>
              /\ req.body.lastCleanedDate = JNull =>
                    /\ resp'.status = 200
                    /\ store'[k].lastCleanedDate = JNull
                    /\ resp'.body.data.lastCleanedDate = JNull
              /\ req.body.lastCleanedDate = JUndefined =>
                    store'[k].lastCleanedDate = store[k].lastCleanedDate]_vars

\* An update whose only key was a null lastCleanedDate was answered 200, and
\* the record it names has no date.
C15_Witness ==
    /\ phase = "done" /\ req.op = "update" /\ resp.status = 200
    /\ Supplied(req.body) = {"lastCleanedDate"}
    /\ req.body.lastCleanedDate = JNull
    /\ \E k \in DOMAIN store :
          TextEqualsInteger(req.id, k) /\ store[k].lastCleanedDate = JNull

C17_BadIdsRefused ==
    [][/\ ((Answered("update") \/ Answered("delete")) /\ IsNaN(req.id)) =>
             /\ resp'.status = 400
             /\ resp'.body.error = "Invalid equipment ID"
             /\ store' = store
       /\ (Answered("delete") /\ NumericAndAbsent(req.id, store)) =>
             /\ resp'.status = 404
             /\ resp'.body.error = "Equipment not found"
             /\ TextEqualsInteger(req.id, resp'.body.id)
             /\ store' = store]_vars

\* The store calls the handler of request r makes on store st when none of them
\* rejects.
StoreCalls(r, st) ==
    CASE r.op = "list" -> 1
      [] r.op = "create" -> IF CreateFailed(r.body) = {} THEN 2 ELSE 0
      [] r.op = "update" ->
            IF IsNaN(r.id) THEN 0
            ELSE IF ~NamesRecord(r.id, st) THEN 1
            ELSE IF UpdateInvalid(r.body) # {} \/ Supplied(r.body) = {} THEN 1
            ELSE 3
      [] r.op = "delete" ->
            IF IsNaN(r.id) THEN 0 ELSE IF ~NamesRecord(r.id, st) THEN 1 ELSE 2
      [] OTHER -> 0

\* C19: a handler answers its request once, with status 200, 201, 400, 404 or
\* 500, and success is true exactly when the status is 200 or 201; when one of
\* the store calls it makes rejects, the answer is 500 with success false and
\* the store's error message; the response stays as sent until it is delivered.
C19_OneResponseAndFailuresCaught ==
    [][/\ phase = "pending" => resp = NoResponse
       /\ (phase = "pending" /\ phase' = "done") =>
             /\ resp'.status \in {200, 201, 400, 404, 500}
             /\ resp'.body.success = (resp'.status \in {200, 201})
             /\ fault.call \in 1..StoreCalls(req, store) =>
                   /\ resp'.status = 500
                   /\ resp'.body.success = FALSE
                   /\ resp'.body.message = fault.message
             /\ fault.call \notin 1..StoreCalls(req, store) => resp'.status # 500
       /\ phase = "done" => (resp' = resp \/ phase' = "idle")]_vars

\* The SELECT after a successful INSERT rejected: the create was answered 500
\* with the store's message, and the new row is in the store.
C19_Witness ==
    /\ phase = "done" /\ req.op = "create" /\ fault.call = 2
    /\ resp.status = 500 /\ resp.body.success = FALSE
    /\ resp.body.message = fault.message
    /\ seq \in DOMAIN store
    /\ seq \notin issued

\* C18: the server answers a create, and an update of an existing record, whose
\* fields are valid and whose lastCleanedDate is a well-formed date with 201 and
\* 200 and stores the date, whether the date lies before or after the day it is;
\* the form never passes to onSubmit a date later than the day it is in the
\* browser.
C18_ServerTakesFutureFormDoesNot ==
    [][/\ (Answered("create") /\ req.body.lastCleanedDate.t = "string"
           /\ IsCalendarDate(req.body.lastCleanedDate.v)
           /\ ~NameFails(req.body) /\ ~TypeFails(req.body) /\ ~StatusFails(req.body)) =>
             /\ resp'.status = 201
             /\ store'[resp'.body.data.id].lastCleanedDate = req.body.lastCleanedDate
       /\ (Answered("update") /\ NamesRecord(req.id, store)
           /\ req.body.lastCleanedDate.t = "string"
           /\ IsCalendarDate(req.body.lastCleanedDate.v)
           /\ OthersPass(req.body)) =>
             /\ resp'.status = 200
             /\ resp'.body.data.lastCleanedDate = req.body.lastCleanedDate
       /\ (submitted' # submitted /\ submitted'.lastCleanedDate.t = "string") =>
             DayNumber(submitted'.lastCleanedDate.v) <= DayNumber(today.date)]_vars

\* Characters c and d are the same letter in either case, or the same character.
SameIgnoringCase(c, d) ==
    \/ c = d
    \/ \E i \in 15..40 : {c, d} = {CodeUnits[i], CodeUnits[i + 26]}

\* Text s holds text q somewhere, letter case aside.
ContainsIgnoringCase(s, q) ==
    \E o \in 0..Len(s) :
        /\ o + Len(q) <= Len(s)
        /\ \A k \in 1..Len(q) : SameIgnoringCase(s[o + k], q[k])

\* Text a does not come after text b, letter case aside: a is b's beginning, or
\* they agree up to a place where a's character is the smaller one.
NotAfterIgnoringCase(a, b) ==
    \/ /\ Len(a) <= Len(b)
       /\ \A k \in 1..Len(a) : SameIgnoringCase(a[k], b[k])
    \/ \E i \in 1..Len(a) :
          /\ i <= Len(b)
          /\ \A k \in 1..(i - 1) : SameIgnoringCase(a[k], b[k])
          /\ CharCode[LowerCase[a[i]]] < CharCode[LowerCase[b[i]]]

\* The record passes the search text and the two filters of the page.
Shown(item) ==
    /\ searchQuery # <<>> =>
          \E f \in {"name", "type", "status"} : ContainsIgnoringCase(item[f].v, searchQuery)
    /\ typeFilter # All => item.type.v = typeFilter
    /\ statusFilter # All => item.status.v = statusFilter

\* The text the table is sorted on: the sort field's value, empty for null.
SortKey(item) ==
    IF item[sortField].t = "string" THEN item[sortField].v ELSE <<>>

\* C20: the displayed sequence is the value of filteredAndSortedEquipment at the
\* cached list, the search text, the two filters, the sort field and the
\* direction; it holds each cached record that passes the search and the
\* filters once and nothing else, in the order of the sort field's values, case
\* aside, ascending or descending as the direction says; and the cached list
\* keeps the order the server gave it.
C20_DisplayedIsFilteredAndSorted ==
    /\ displayed = FilteredAndSortedEquipment(equipment, searchQuery, typeFilter,
                                              statusFilter, sortField,
                                              sortDirection).result
    /\ \A i \in 1..Len(displayed) :
          Shown(displayed[i]) /\ \E j \in 1..Len(equipment) : equipment[j] = displayed[i]
    /\ \A j \in 1..Len(equipment) :
          Shown(equipment[j]) =>
             Cardinality({i \in 1..Len(displayed) : displayed[i] = equipment[j]}) = 1
    /\ \A i, k \in 1..Len(displayed) :
          i < k => IF sortDirection = "asc"
                   THEN NotAfterIgnoringCase(SortKey(displayed[i]), SortKey(displayed[k]))
                   ELSE NotAfterIgnoringCase(SortKey(displayed[k]), SortKey(displayed[i]))
    /\ \A i, k \in 1..Len(equipment) : i < k => equipment[i].id > equipment[k].id

\* Of three cached records the search text "ACT" leaves two, shown by name:
\* "mixer a" before "Tank 1", which an order by code units would put first.
C20_Witness ==
    /\ Len(equipment) = 3 /\ Len(displayed) = 2
    /\ searchQuery = <<"A", "C", "T">>
    /\ sortField = "name" /\ sortDirection = "asc"
    /\ displayed[1].id > displayed[2].id
    /\ StringLess(displayed[2].name.v, displayed[1].name.v)

\* C21: a cached record that passes the two filters is displayed for a
\* non-empty search text whenever the text occurs, letter case aside, in its
\* name, type, status or lastCleanedDate.
C21_SearchMatchesAllFields ==
    \A j \in 1..Len(equipment) :
        LET item == equipment[j]
        IN (/\ searchQuery # <<>>
            /\ typeFilter # All => item.type.v = typeFilter
            /\ statusFilter # All => item.status.v = statusFilter
            /\ \E f \in Fields :
                  /\ item[f].t = "string"
                  /\ ContainsIgnoringCase(item[f].v, searchQuery))
           => \E i \in 1..Len(displayed) : displayed[i] = item

\* A mutation of the page settles: the response to its request is read.
MutationSettles ==
    /\ phase = "done"
    /\ req.op \in {"create", "update", "delete"}
    /\ phase' # "done"

\* The refetch of the list settles.
QuerySettles == phase = "done" /\ req.op = "list" /\ phase' # "done"

\* What GET /equipment answers from the store as it is.
ServerList == SelectAllDesc(store)

SubmitFollowsEditMode ==
    (phase = "idle" /\ phase' = "pending" /\ req'.op \in {"create", "update"}) =>
        IF editingEquipment # NoRow
        THEN req'.op = "update" /\ req'.id = NumberToString(editingEquipment.id)
        ELSE req'.op = "create"

\* Edit mode is entered, or moves to another record, only by Edit on a
\* displayed row.
EnteredByEditOnly ==
    (editingEquipment' # NoRow /\ editingEquipment' # editingEquipment) =>
        /\ Includes(displayed, editingEquipment')
        /\ UNCHANGED <<server, page>>

\* Edit mode is left on an update answered ok or on Cancel, and is kept when the
\* update is answered with an error.
LeftOnSuccessOrCancel ==
    /\ (editingEquipment # NoRow /\ editingEquipment' = NoRow) =>
          \/ MutationSettles /\ req.op = "update" /\ Ok(resp)
          \/ UNCHANGED <<server, page>> /\ form' = EmptyForm
    /\ (MutationSettles /\ req.op = "update" /\ ~Ok(resp)) =>
          editingEquipment' = editingEquipment

\* The record being edited is in the server's store.
EditedRecordExists ==
    editingEquipment # NoRow => editingEquipment.id \in DOMAIN store

\* C26: a submit sends an update for the edited record's id exactly when an edit
\* is in progress and an add otherwise; edit mode is entered only by Edit on a
\* row, left on a successful update or on Cancel, kept when the update fails;
\* and while edit mode is active the edited record exists in the server's store.
C26_EditModeTracksRecord ==
    [][/\ SubmitFollowsEditMode
       /\ EnteredByEditOnly
       /\ LeftOnSuccessOrCancel
       /\ EditedRecordExists']_vars

\* C24: the update handler answers by the first of its checks that fails, in
\* this order: an id that is not a number, 400 "Invalid equipment ID"; an id
\* that names no record, 404, whatever the body holds; an invalid supplied
\* field, 400 "Validation failed"; no supplied field, 400 "No fields to
\* update".  The store is written only when none of them fails, and then the
\* answer is 200.
C24_UpdateChecksInOrder ==
    [][Answered("update") =>
          LET b == req.body
          IN /\ IF IsNaN(req.id)
                THEN resp'.status = 400 /\ resp'.body.error = "Invalid equipment ID"
                ELSE IF ~NamesRecord(req.id, store)
                THEN resp'.status = 404 /\ resp'.body.error = "Equipment not found"
                ELSE IF UpdateInvalid(b) # {}
                THEN resp'.status = 400 /\ resp'.body.error = "Validation failed"
                ELSE IF Supplied(b) = {}
                THEN resp'.status = 400 /\ resp'.body.error = "No fields to update"
                ELSE resp'.status = 200
             /\ resp'.status # 200 => store' = store
             /\ resp'.status = 200 =>
                   \E k \in DOMAIN store :
                       /\ TextEqualsInteger(req.id, k)
                       /\ store'[k] = resp'.body.data
                       /\ \A f \in Supplied(b) \ {"name"} : store'[k][f] = b[f]]_vars

\* An update of an id that names no record, with a body that has an invalid
\* field, was answered 404 while the store holds another record.
C24_Witness ==
    /\ phase = "done" /\ req.op = "update"
    /\ NumericAndAbsent(req.id, store)
    /\ UpdateInvalid(req.body) # {}
    /\ store # EmptyStore
    /\ resp.status = 404

\* The record a response carries is one with the id k that holds every value the
\* body b supplied (the name trimmed).
CarriesWritten(data, k, b) ==
    IF data = NoRow THEN FALSE
    ELSE /\ data.id = k
         /\ \A f \in Supplied(b) :
               data[f] = IF f = "name" THEN JStr(Trim(b.name.v)) ELSE b[f]

\* C23: whatever the handlers running beside it do, a create answered 201
\* carries the record with the id its INSERT was given and the values of its
\* body, and an update answered 200 carries the record its path names with the
\* values of its body; no update is answered 200 without a record.
C23_ResponsesCarryWrittenRecord ==
    \A h \in DOMAIN handlers :
        LET s == handlers[h]
        IN s.pc = "done" =>
              /\ (s.op = "create" /\ s.resp.status = 201) =>
                    CarriesWritten(s.resp.body.data, s.lastID, s.body)
              /\ (s.op = "update" /\ s.resp.status = 200) =>
                    CarriesWritten(s.resp.body.data, ParseInt(s.id), s.body)

RECURSIVE SumOver(_, _)
SumOver(f, S) ==
    IF S = {} THEN 0
    ELSE LET x == CHOOSE y \in S : TRUE
         IN f[x] + SumOver(f, S \ {x})

\* C25: of the deletes of one id, whatever their interleaving, at most one is
\* answered 200; and when no handler is between its store calls, the store
\* holds as many records as creates were answered 201 less deletes answered 200.
C25_OneDeleteSucceeds ==
    /\ \A id \in ConcIds : answered.deleted[id] <= 1
    /\ (\A h \in DOMAIN handlers : handlers[h].pc \in {"idle", "done"}) =>
          Cardinality(DOMAIN store) = answered.created - SumOver(answered.deleted, ConcIds)

====
